---- MODULE Spec2Model ----
(***************************************************************************)
(* MediSecure backend: the authentication and device-trust subsystem.      *)
(*                                                                         *)
(* State: the relational store (users, user_devices), the Redis key-value  *)
(* store with per-key TTL, the access tokens clients hold, and the last    *)
(* HTTP response.  One action per request handler of routers/auth_v2.py,   *)
(* routers/auth.py and routers/user_management.py.                        *)
(*                                                                         *)
(* Strings are sequences of characters where the code concatenates or      *)
(* pattern-matches them (passwords, salts, refresh tokens, Redis keys) and *)
(* plain TLA+ strings where the code only compares them.                   *)
(***************************************************************************)
EXTENDS Naturals, Sequences, FiniteSets, TLC

VARIABLES
    users,      \* table users: id -> row
    next_id,    \* users.id autoincrement
    devices,    \* table user_devices: id -> row
    next_dev,   \* user_devices.id autoincrement
    redis,      \* redis_client: key -> [val, ttl]
    next_tok,   \* number of refresh tokens drawn so far from secrets.token_urlsafe
    access,     \* sub -> remaining lifetime of the longest-lived access token issued for it
    resp,       \* the response of the last request handled
    nreq,       \* number of requests accepted for handling so far
    password_history, \* table password_history: rows in order of created_at
    inflight,   \* per worker: the request it is in the middle of, with its locals
    failed_logins,    \* observer: per address, the logins refused for a wrong password
    user_profiles,    \* table user_profiles: user_id -> the columns that are not NULL
    encryption_manager, \* utils/encryption.py: ENCRYPTION_MASTER_KEY and the singleton's key
    profile_resp      \* the last profile request and its response

vars == <<users, next_id, devices, next_dev, redis, next_tok, access, resp, nreq, inflight,
          password_history, failed_logins, user_profiles, encryption_manager, profile_resp>>

profile_vars == <<user_profiles, encryption_manager, profile_resp>>

db == <<users, next_id, devices, next_dev, password_history>>

-----------------------------------------------------------------------------
(* Bounds of the model *)

MaxRequests == 4
MaxUsers == 2
MaxDevices == 2
MaxTokens == 2
\* TTLs in ticks of the model clock (the code's 600 s, 7 days and 300 min)
CodeTTL == 2
RefreshTTL == 2
AccessTTL == 2

Emails == {"a@x", "b@x"}
Names == {"n"}
Passwords == {<<"p">>, <<"q">>}
Salts == {<<"s">>}
Codes == {"111111", "222222"}
Roles == {"patient", "admin"}
UserAgents == {"ua1"}
ClientIps == {"ip1"}
DeviceIds == {"d1"}
\* absent optional request field
None == ""

-----------------------------------------------------------------------------
(* utils/security.py *)

\* pwd_context.hash: Argon2 of the salted password (its own internal salt is
\* not modelled: it does not change what verifies)
GetPasswordHash(password, salt) == [argon2 |-> password \o salt]

VerifyPassword(plain_password, hashed_password, salt) ==
    hashed_password = [argon2 |-> plain_password \o salt]

\* sha256 over "user_agent|client_ip"
GenerateDeviceFingerprint(user_agent, client_ip) == <<"sha256", user_agent, client_ip>>

\* fingerprints a client may put in the request body
ClientFingerprints == {<<"fp1">>}

-----------------------------------------------------------------------------
(* Redis *)

Exists(key) == key \in DOMAIN redis

Get(key) == redis[key].val

SetEx(r, key, ttl, val) ==
    [k \in DOMAIN r \cup {key} |-> IF k = key THEN [val |-> val, ttl |-> ttl] ELSE r[k]]

\* faulty variant: a delete that leaves the key in place
DeleteNothing(r, key) == r

Delete(r, key) == [k \in DOMAIN r \ {key} |-> r[k]]

RegistrationKey(email) == <<"registration", ":", email>>
DeviceVerifyKey(email) == <<"device_verify", ":", email>>
ResetKey(email) == <<"reset", ":", email>>

\* str(user.id)
IdStr(id) == <<"1", "2", "3", "4", "5", "6">>[id]

RefreshKey(user_id, token) == <<"refresh_token", ":", IdStr(user_id), ":">> \o token

\* f"refresh_token:*:{refresh_token}"
RefreshPattern(refresh_token) == <<"refresh_token", ":", "*", ":">> \o refresh_token

\* Redis glob matching of MATCH patterns: * and ? (no [..] or \ in the model's alphabet)
RECURSIVE GlobMatch(_, _)
GlobMatch(pattern, key) ==
    IF pattern = <<>> THEN key = <<>>
    ELSE IF Head(pattern) = "*"
         THEN GlobMatch(Tail(pattern), key)
              \/ (key # <<>> /\ GlobMatch(pattern, Tail(key)))
    ELSE IF key = <<>> THEN FALSE
    ELSE (Head(pattern) = "?" \/ Head(pattern) = Head(key))
         /\ GlobMatch(Tail(pattern), Tail(key))

\* redis_client.scan_iter(match=pattern)
ScanIter(pattern) == {k \in DOMAIN redis : GlobMatch(pattern, k)}

\* the k-th value drawn from secrets.token_urlsafe(32): values never repeat
TokenLen == 2
TokenOf(k) == [i \in 1..TokenLen |-> IF ((k - 1) \div (2 ^ (i - 1))) % 2 = 0 THEN "a" ELSE "b"]

\* refresh_token cookie values a client may present: absent, an issued token,
\* or a value with glob metacharacters
RefreshCookies ==
    {<<>>} \cup {TokenOf(k) : k \in 1..MaxTokens} \cup {<<"*">>, <<"?", "a">>}

-----------------------------------------------------------------------------
(* The relational store *)

UsersByEmail(u, email) == {i \in DOMAIN u : u[i].email = email}

\* faulty variant: users.email declared without unique=True
NoUniqueIndex(u, id, email) == FALSE

\* the unique index on users.email: writing email into row id is refused with
\* an IntegrityError when another row holds it
UniqueViolation(u, id, email) == \E i \in DOMAIN u \ {id} : u[i].email = email

InsertUser(u, id, row) == [i \in DOMAIN u \cup {id} |-> IF i = id THEN row ELSE u[i]]

UserDevices(d, uid) == {i \in DOMAIN d : d[i].user_id = uid}

\* faulty variant: db.add(new_device) without the commit: the row is lost
InsertDeviceLost(d, id, row) == d

InsertDevice(d, id, row) == [i \in DOMAIN d \cup {id} |-> IF i = id THEN row ELSE d[i]]

-----------------------------------------------------------------------------
(* Responses *)

Response(op, email, status, detail) ==
    [op |-> op, email |-> email, status |-> status, detail |-> detail, cookies |-> "none",
     token |-> <<>>, requires_verification |-> FALSE, device_id |-> None,
     mail |-> None]

-----------------------------------------------------------------------------
(* Request handlers in progress *)

NumWorkers == 2
Workers == 1..NumWorkers

Idle == [op |-> "idle", pc |-> "", email |-> None, sub |-> 0, data |-> << >>]

-----------------------------------------------------------------------------

SeedPassword == <<"p">>
SeedSalt == <<"s">>

-----------------------------------------------------------------------------
(* utils/sanitization.py and utils/encryption.py.  A profile value is a
   sequence of characters; an HTML entity is one element of the sequence,
   and so is the run of letters "a..." that makes a value long. *)

\* longest plaintext the model writes into a profile field
LongLen == 128

\* LongLen letters: one letter and a run of LongLen - 1
LongText == <<"a", "a...">>

FieldValues == {<< >>, <<"a">>, <<"a", "&", "b">>, <<"<", "b", ">", "a">>, LongText}

\* the sensitive_fields of both profile handlers that the model carries
SensitiveFields == {"first_name", "address"}

\* the String(255) columns among them; address is Text
StringColumns == {"first_name"}

ColumnLen == 255

Keys == {"k1", "k2"}

IVs == {"iv1", "iv2"}

\* bleach.clean(text, tags=[], strip=True): tags are removed, the characters
\* & < > that are not part of a tag or entity are escaped
RECURSIVE StripHtml(_)
StripHtml(text) ==
    IF text = << >> THEN text
    ELSE LET c == Head(text)
             rest == Tail(text)
             close == {i \in 1..Len(rest) : rest[i] = ">"}
         IN IF c = "<"
            THEN IF close # {} /\ rest[1] \notin {"&", "<", ">"}
                 THEN StripHtml(SubSeq(rest, (CHOOSE i \in close : \A j \in close : i <= j) + 1, Len(rest)))
                 ELSE <<"&lt;">> \o StripHtml(rest)
            ELSE IF c = ">" THEN <<"&gt;">> \o StripHtml(rest)
            ELSE IF c = "&" THEN <<"&amp;">> \o StripHtml(rest)
            ELSE <<c>> \o StripHtml(rest)

\* sanitize_user_input on a profile body: no profile field is among its
\* string_fields, so every string value goes through strip_html
SanitizeUserInput(data) == [f \in DOMAIN data |-> StripHtml(data[f])]

\* a Fernet token: the version byte, then IV and ciphertext authenticated
\* under the key
FernetToken(key, iv, data) == <<"gAAAAA", key, iv>> \o data

Encrypt(key, iv, data) == IF data = << >> THEN data ELSE FernetToken(key, iv, data)

\* InvalidToken: not a token, or not one made under this key
DecryptFails(key, encrypted_data) ==
    /\ encrypted_data # << >>
    /\ ~(Len(encrypted_data) > 3 /\ encrypted_data[1] = "gAAAAA" /\ encrypted_data[2] = key)

Decrypt(key, encrypted_data) ==
    IF encrypted_data = << >> THEN encrypted_data
    ELSE SubSeq(encrypted_data, 4, Len(encrypted_data))

EncryptDict(key, ivs, data, fields_to_encrypt) ==
    [f \in DOMAIN data |->
        IF f \in fields_to_encrypt /\ data[f] # << >>
        THEN Encrypt(key, ivs[f], data[f]) ELSE data[f]]

DecryptDict(key, data, fields_to_decrypt) ==
    [f \in DOMAIN data |->
        IF f \in fields_to_decrypt /\ data[f] # << >> /\ ~DecryptFails(key, data[f])
        THEN Decrypt(key, data[f]) ELSE data[f]]

\* get_encryption_manager: the keys the singleton can hold after the call
ManagerKeys(m) ==
    IF m.cipher # None THEN {m.cipher}
    ELSE IF m.env # None THEN {m.env}
    ELSE Keys

\* number of characters of a value
RECURSIVE CharLen(_)
CharLen(text) ==
    IF text = << >> THEN 0
    ELSE (IF Head(text) = "a..." THEN LongLen - 1
          ELSE IF Head(text) = "&amp;" THEN 5
          ELSE IF Head(text) \in {"&lt;", "&gt;"} THEN 4 ELSE 1) + CharLen(Tail(text))

\* length of the urlsafe-base64 Fernet token of an n-byte plaintext
FernetTokenLen(n) == 4 * ((57 + 16 * ((n \div 16) + 1) + 2) \div 3)

StoredLen(value) ==
    IF Len(value) > 3 /\ value[1] = "gAAAAA"
    THEN FernetTokenLen(CharLen(SubSeq(value, 4, Len(value))))
    ELSE CharLen(value)

\* PostgreSQL refuses a value longer than its character varying(n) column
DataError(row) == \E f \in DOMAIN row \cap StringColumns : StoredLen(row[f]) > ColumnLen

ProfileResponse(op, sub, body, status, data) ==
    [op |-> op, sub |-> sub, body |-> body, status |-> status, data |-> data]

NoProfileRequest == ProfileResponse("none", 0, << >>, 0, << >>)

\* The store holds one verified account inserted directly (as seed_db.py and
\* test_security_features.py do); Redis is empty.  users.is_active ("For soft
\* delete / account disable") is written by no handler, only directly in the
\* database, so the account starts either active or disabled.
Init ==
    /\ \E active \in BOOLEAN :
         users = [i \in {1} |->
                    [email |-> "a@x", name |-> "n",
                     hashed_password |-> GetPasswordHash(SeedPassword, SeedSalt),
                     salt |-> SeedSalt, role |-> "patient",
                     is_verified |-> TRUE, is_active |-> active]]
    /\ next_id = 2
    /\ password_history = << >>
    /\ devices = << >>
    /\ next_dev = 1
    /\ redis = << >>
    /\ next_tok = 0
    /\ access = [i \in 1..MaxUsers |-> 0]
    /\ resp = Response("none", None, 0, "")
    /\ nreq = 0
    /\ inflight = [w \in Workers |-> Idle]
    /\ failed_logins = [e \in Emails |-> 0]
    /\ user_profiles = << >>
    /\ encryption_manager = [env |-> None, cipher |-> None]
    /\ profile_resp = NoProfileRequest

-----------------------------------------------------------------------------
(* routers/auth_v2.py *)

\* faulty variant: register without the pending-registration check: a live pending
\* registration is overwritten and a fresh code is mailed
RegisterOverwrites(email, password, name, role) ==
    /\ UNCHANGED <<db, next_tok, access>>
    /\ IF UsersByEmail(users, email) # {}
       THEN /\ resp' = Response("register", email, 400, "Email already registered")
            /\ UNCHANGED redis
       ELSE \E salt \in Salts, code \in Codes :
            /\ redis' = SetEx(redis, RegistrationKey(email), CodeTTL,
                              [email |-> email, name |-> name,
                               hashed_password |-> GetPasswordHash(password, salt),
                               salt |-> salt,
                               role |-> IF role # None THEN role ELSE "patient",
                               code |-> code])
            /\ resp' = [Response("register", email, 201, "Registration successful. Please check your email to verify your account.")
                          EXCEPT !.mail = code]

Register(email, password, name, role) ==
    /\ UNCHANGED <<db, next_tok, access>>
    /\ IF UsersByEmail(users, email) # {}
       THEN /\ resp' = Response("register", email, 400, "Email already registered")
            /\ UNCHANGED redis
       ELSE IF Exists(RegistrationKey(email))
       THEN /\ resp' = Response("register", email, 400, "Verification code already sent. Please check your email.")
            /\ UNCHANGED redis
       ELSE \E salt \in Salts, code \in Codes :
            /\ redis' = SetEx(redis, RegistrationKey(email), CodeTTL,
                              [email |-> email, name |-> name,
                               hashed_password |-> GetPasswordHash(password, salt),
                               salt |-> salt,
                               role |-> IF role # None THEN role ELSE "patient",
                               code |-> code])
            /\ resp' = [Response("register", email, 201, "Registration successful. Please check your email to verify your account.")
                          EXCEPT !.mail = code]

\* faulty variant: verify_email without its step 4
VerifyEmailNoCleanup(r, email) == r

\* verify_email step 4: the pending registration is deleted
VerifyEmailCleanup(r, email) == Delete(r, RegistrationKey(email))

\* UserVerify.get_code
GetCode(verification_code, code) ==
    IF verification_code # None THEN verification_code
    ELSE IF code # None THEN code ELSE ""

\* faulty variant: the pending registration is deleted before the insert is
\* known to have succeeded
VerifyEmailConsumesPending(email, verification_code, code_field) ==
    /\ UNCHANGED <<password_history, devices, next_dev, next_tok, access>>
    /\ IF ~Exists(RegistrationKey(email))
       THEN /\ resp' = Response("verify_email", email, 400, "Verification code expired or invalid")
            /\ UNCHANGED <<users, next_id, redis>>
       ELSE LET stored_data == Get(RegistrationKey(email)) IN
            IF stored_data.code # GetCode(verification_code, code_field)
            THEN /\ resp' = Response("verify_email", email, 400, "Invalid verification code")
                 /\ UNCHANGED <<users, next_id, redis>>
            ELSE IF UniqueViolation(users, next_id, stored_data.email)
            THEN /\ resp' = Response("verify_email", email, 500, "Database error during user creation")
                 /\ redis' = Delete(redis, RegistrationKey(email))
                 /\ UNCHANGED <<users, next_id>>
            ELSE /\ next_id <= MaxUsers
                 /\ users' = InsertUser(users, next_id,
                                [email |-> stored_data.email, name |-> stored_data.name,
                                 hashed_password |-> stored_data.hashed_password,
                                 salt |-> stored_data.salt, role |-> stored_data.role,
                                 is_verified |-> TRUE, is_active |-> TRUE])
                 /\ next_id' = next_id + 1
                 /\ redis' = VerifyEmailCleanup(redis, email)
                 /\ resp' = Response("verify_email", email, 200, "Email verified successfully. You can now login.")

VerifyEmail(email, verification_code, code_field) ==
    /\ UNCHANGED <<password_history, devices, next_dev, next_tok, access>>
    /\ IF ~Exists(RegistrationKey(email))
       THEN /\ resp' = Response("verify_email", email, 400, "Verification code expired or invalid")
            /\ UNCHANGED <<users, next_id, redis>>
       ELSE LET stored_data == Get(RegistrationKey(email)) IN
            IF stored_data.code # GetCode(verification_code, code_field)
            THEN /\ resp' = Response("verify_email", email, 400, "Invalid verification code")
                 /\ UNCHANGED <<users, next_id, redis>>
            ELSE IF UniqueViolation(users, next_id, stored_data.email)
            THEN /\ resp' = Response("verify_email", email, 500, "Database error during user creation")
                 /\ UNCHANGED <<users, next_id, redis>>
            ELSE /\ next_id <= MaxUsers
                 /\ users' = InsertUser(users, next_id,
                                [email |-> stored_data.email, name |-> stored_data.name,
                                 hashed_password |-> stored_data.hashed_password,
                                 salt |-> stored_data.salt, role |-> stored_data.role,
                                 is_verified |-> TRUE, is_active |-> TRUE])
                 /\ next_id' = next_id + 1
                 /\ redis' = VerifyEmailCleanup(redis, email)
                 /\ resp' = Response("verify_email", email, 200, "Email verified successfully. You can now login.")

\* login steps 6 and 7 (and verify_device steps 7 and 8): the access token, the
\* refresh token stored under refresh_token:{user.id}:{token}, the cookies
SessionIssued(op, email, r, user_id, detail) ==
    /\ next_tok < MaxTokens
    /\ next_tok' = next_tok + 1
    /\ redis' = SetEx(r, RefreshKey(user_id, TokenOf(next_tok + 1)), RefreshTTL,
                      [user_id |-> user_id, email |-> users[user_id].email])
    /\ access' = [access EXCEPT ![user_id] = AccessTTL]
    /\ resp' = [Response(op, email, 200, detail) EXCEPT !.cookies = "auth",
                                                 !.token = TokenOf(next_tok + 1)]

\* absent device_fingerprint field
NoFingerprint == <<>>

\* faulty variant: the challenge is stored without the candidate fingerprint
DeviceChallengeNoFingerprint(fingerprint, code, device_id) ==
    [fingerprint |-> NoFingerprint, code |-> code, device_id |-> device_id]

\* the payload stored under device_verify:{email}
DeviceChallenge(fingerprint, code, device_id) ==
    [fingerprint |-> fingerprint, code |-> code, device_id |-> device_id]

\* faulty variant: verify_device that leaves the challenge in Redis
VerifyDeviceNoCleanup(r, email) == r

\* verify_device step 6: the challenge is deleted
VerifyDeviceCleanup(r, email) == Delete(r, DeviceVerifyKey(email))

Login(email, password, device_fingerprint, user_agent, client_ip) ==
    IF UsersByEmail(users, email) = {}
    THEN /\ resp' = Response("login", email, 401, "Invalid credentials")
         /\ UNCHANGED <<db, redis, next_tok, access>>
    ELSE LET user_id == CHOOSE i \in UsersByEmail(users, email) : TRUE
             user == users[user_id]
             current_fingerprint ==
                 IF device_fingerprint # NoFingerprint THEN device_fingerprint
                 ELSE GenerateDeviceFingerprint(user_agent, client_ip)
             user_devices == UserDevices(devices, user_id)
         IN
         IF ~user.is_active
         THEN /\ resp' = Response("login", email, 403, "Account disabled")
              /\ UNCHANGED <<db, redis, next_tok, access>>
         ELSE IF ~user.is_verified
         THEN /\ resp' = Response("login", email, 403, "Account not verified. Please verify your email first.")
              /\ UNCHANGED <<db, redis, next_tok, access>>
         ELSE IF ~VerifyPassword(password, user.hashed_password, user.salt)
         THEN /\ resp' = Response("login", email, 401, "Invalid credentials")
              /\ UNCHANGED <<db, redis, next_tok, access>>
         ELSE IF user_devices = {}
         THEN \* first login ever: the device is registered automatically
              /\ next_dev <= MaxDevices
              /\ devices' = InsertDevice(devices, next_dev,
                               [user_id |-> user_id, fingerprint_hash |-> current_fingerprint])
              /\ next_dev' = next_dev + 1
              /\ UNCHANGED <<password_history, users, next_id>>
              /\ SessionIssued("login", email, redis, user_id, "Login successful")
         ELSE IF \A d \in user_devices : devices[d].fingerprint_hash # current_fingerprint
         THEN \* new device: a code is mailed, no session
              \E code \in Codes, device_id \in DeviceIds :
                /\ redis' = SetEx(redis, DeviceVerifyKey(user.email), CodeTTL,
                                  DeviceChallenge(current_fingerprint, code, device_id))
                /\ resp' = [Response("login", email, 200, "Please verify your device. A code has been sent to your email.")
                              EXCEPT !.requires_verification = TRUE,
                                     !.device_id = device_id,
                                     !.mail = code]
                /\ UNCHANGED <<db, next_tok, access>>
         ELSE \* known device (its last_login is a timestamp, not modelled)
              /\ UNCHANGED db
              /\ SessionIssued("login", email, redis, user_id, "Login successful")

\* faulty variant: verify_device that drops the challenge on a wrong code
VerifyDeviceBurnsChallenge(email, verification_code, device_fingerprint) ==
    /\ Exists(DeviceVerifyKey(email))
    /\ Get(DeviceVerifyKey(email)).code # verification_code
    /\ resp' = Response("verify_device", email, 400, "Invalid verification code")
    /\ redis' = Delete(redis, DeviceVerifyKey(email))
    /\ UNCHANGED <<db, next_tok, access>>

VerifyDevice(email, verification_code, device_fingerprint) ==
    IF ~Exists(DeviceVerifyKey(email))
    THEN /\ resp' = Response("verify_device", email, 400, "Verification code expired or invalid")
         /\ UNCHANGED <<db, redis, next_tok, access>>
    ELSE LET stored_data == Get(DeviceVerifyKey(email))
             current_fingerprint ==
                 IF device_fingerprint # NoFingerprint THEN device_fingerprint
                 ELSE stored_data.fingerprint
         IN
         IF stored_data.code # verification_code
         THEN /\ resp' = Response("verify_device", email, 400, "Invalid verification code")
              /\ UNCHANGED <<db, redis, next_tok, access>>
         ELSE IF UsersByEmail(users, email) = {}
         THEN /\ resp' = Response("verify_device", email, 404, "User not found")
              /\ UNCHANGED <<db, redis, next_tok, access>>
         ELSE LET user_id == CHOOSE i \in UsersByEmail(users, email) : TRUE IN
              /\ next_dev <= MaxDevices
              /\ devices' = InsertDevice(devices, next_dev,
                               [user_id |-> user_id, fingerprint_hash |-> current_fingerprint])
              /\ next_dev' = next_dev + 1
              /\ UNCHANGED <<password_history, users, next_id>>
              /\ SessionIssued("verify_device", email, VerifyDeviceCleanup(redis, email),
                               user_id, "Device verified successfully")

\* absent refresh_token cookie
NoCookie == <<>>

\* set_auth_cookies: the path attribute of the refresh_token cookie, and the
\* paths of the two endpoints that read the cookie, as path segments
RefreshCookiePath == <<"api", "auth", "refresh">>
RefreshEndpoint == <<"api", "auth", "refresh">>
LogoutEndpoint == <<"api", "auth", "logout">>

\* RFC 6265 path-match: the cookie path is a prefix of the request path
PathMatch(cookie_path, request_path) ==
    /\ Len(cookie_path) <= Len(request_path)
    /\ SubSeq(request_path, 1, Len(cookie_path)) = cookie_path

\* request.cookies.get("refresh_token") for a client that holds the cookie with
\* value refresh_token and sends each cookie only under its path
CookieSent(request_path, refresh_token) ==
    IF PathMatch(RefreshCookiePath, request_path) THEN refresh_token ELSE NoCookie

RefreshToken(refresh_token) ==
    /\ UNCHANGED <<db, redis, next_tok>>
    /\ IF refresh_token = NoCookie
       THEN /\ resp' = Response("refresh", None, 401, "No refresh token provided")
            /\ UNCHANGED access
       ELSE LET keys == ScanIter(RefreshPattern(refresh_token)) IN
            IF keys = {}
            THEN /\ resp' = Response("refresh", None, 401, "Invalid or expired refresh token")
                 /\ UNCHANGED access
            ELSE \E key \in keys :   \* keys[0]: SCAN returns the keys in no fixed order
                 LET user_id == Get(key).user_id IN
                 IF user_id \notin DOMAIN users \/ ~users[user_id].is_active
                 THEN /\ resp' = [Response("refresh", None, 401, "User not found or inactive")
                                    EXCEPT !.cookies = "cleared"]
                      /\ UNCHANGED access
                 ELSE /\ access' = [access EXCEPT ![user_id] = AccessTTL]
                      /\ resp' = [Response("refresh", None, 200, "Token refreshed successfully")
                                    EXCEPT !.cookies = "access"]

RECURSIVE DeleteAll(_, _)
DeleteAll(r, keys) ==
    IF keys = {} THEN r
    ELSE LET k == CHOOSE k \in keys : TRUE IN DeleteAll(Delete(r, k), keys \ {k})

Logout(refresh_token) ==
    /\ UNCHANGED <<db, next_tok, access>>
    /\ redis' = IF refresh_token # NoCookie
                THEN DeleteAll(redis, ScanIter(RefreshPattern(refresh_token)))
                ELSE redis
    /\ resp' = [Response("logout", None, 200, "Logged out successfully") EXCEPT !.cookies = "cleared"]

\* faulty variant: a reset code is stored and mailed whether or not an
\* account holds the email
ForgotPasswordAlways(email) ==
    /\ UNCHANGED <<db, next_tok, access>>
    /\ \E code \in Codes :
         /\ redis' = SetEx(redis, ResetKey(email), CodeTTL, code)
         /\ resp' = [Response("forgot_password", email, 200, "If the email exists, a reset code has been sent.")
                       EXCEPT !.mail = code]

ForgotPassword(email) ==
    /\ UNCHANGED <<db, next_tok, access>>
    /\ IF UsersByEmail(users, email) # {}
       THEN \E code \in Codes :
              /\ redis' = SetEx(redis, ResetKey(email), CodeTTL, code)
              /\ resp' = [Response("forgot_password", email, 200, "If the email exists, a reset code has been sent.")
                            EXCEPT !.mail = code]
       ELSE /\ UNCHANGED redis
            /\ resp' = Response("forgot_password", email, 200, "If the email exists, a reset code has been sent.")

\* UserResetPassword.get_code
GetResetCode(reset_code, code) ==
    IF reset_code # None THEN reset_code
    ELSE IF code # None THEN code ELSE ""

ResetPassword(email, reset_code, code_field, new_password) ==
    /\ UNCHANGED <<password_history, next_id, devices, next_dev, next_tok, access>>
    /\ IF ~Exists(ResetKey(email)) \/ Get(ResetKey(email)) # GetResetCode(reset_code, code_field)
       THEN /\ resp' = Response("reset_password", email, 400, "Invalid or expired reset code")
            /\ UNCHANGED <<users, redis>>
       ELSE IF UsersByEmail(users, email) = {}
       THEN /\ resp' = Response("reset_password", email, 404, "User not found")
            /\ UNCHANGED <<users, redis>>
       ELSE LET user_id == CHOOSE i \in UsersByEmail(users, email) : TRUE IN
            \E new_salt \in Salts :
              /\ users' = [users EXCEPT ![user_id].hashed_password = GetPasswordHash(new_password, new_salt),
                                        ![user_id].salt = new_salt]
              /\ redis' = Delete(redis, ResetKey(email))
              /\ resp' = Response("reset_password", email, 200, "Password reset successful")

\* faulty variant: the new code replaces the old one in place, the timer of
\* the record keeps running
ResendKeepsTimer(email) ==
    /\ UNCHANGED <<db, next_tok, access>>
    /\ IF ~Exists(RegistrationKey(email))
       THEN /\ resp' = Response("resend_verification", email, 400, "No pending verification found. Please register again.")
            /\ UNCHANGED redis
       ELSE \E new_code \in Codes :
              /\ redis' = [redis EXCEPT ![RegistrationKey(email)].val.code = new_code]
              /\ resp' = [Response("resend_verification", email, 200, "Verification code resent. Please check your email.")
                            EXCEPT !.mail = new_code]

ResendVerification(email) ==
    /\ UNCHANGED <<db, next_tok, access>>
    /\ IF ~Exists(RegistrationKey(email))
       THEN /\ resp' = Response("resend_verification", email, 400, "No pending verification found. Please register again.")
            /\ UNCHANGED redis
       ELSE \E new_code \in Codes :
              /\ redis' = SetEx(redis, RegistrationKey(email), CodeTTL,
                                [Get(RegistrationKey(email)) EXCEPT !.code = new_code])
              /\ resp' = [Response("resend_verification", email, 200, "Verification code resent. Please check your email.")
                            EXCEPT !.mail = new_code]

-----------------------------------------------------------------------------
(* utils/security.py get_current_user, for a request presenting an access token
   whose subject is sub: "ok", or the status of the error raised *)

GetCurrentUser(sub) ==
    IF access[sub] = 0 THEN 401                 \* no unexpired token for this subject
    ELSE IF sub \notin DOMAIN users THEN 401
    ELSE IF ~users[sub].is_active THEN 403
    ELSE 200

AuthError(op, status) ==
    Response(op, None, status, IF status = 403 THEN "Account is disabled"
                         ELSE "Could not validate credentials")

-----------------------------------------------------------------------------
(* utils/sanitization.py *)

\* email.lower().strip(), for the addresses of the model
SanitizeEmail(email) == IF email = "B@x" THEN "b@x" ELSE email

-----------------------------------------------------------------------------
(* routers/user_management.py *)

\* addresses a profile update may carry
UpdateEmails == Emails \cup {"B@x"}

UpdateCurrentUserProfile(sub, email) ==
    /\ UNCHANGED <<password_history, next_id, devices, next_dev, redis, next_tok, access>>
    /\ IF GetCurrentUser(sub) # 200
       THEN /\ resp' = AuthError("update_profile", GetCurrentUser(sub))
            /\ UNCHANGED users
       ELSE IF email = None
       THEN /\ resp' = Response("update_profile", None, 200, "")
            /\ UNCHANGED users
       ELSE IF UsersByEmail(users, SanitizeEmail(email)) \ {sub} # {}
       THEN \* the HTTPException(400) is raised inside the try and caught by
            \* "except Exception"
            /\ resp' = Response("update_profile", None, 500, "Failed to update profile")
            /\ UNCHANGED users
       ELSE /\ users' = [users EXCEPT ![sub].email = SanitizeEmail(email),
                                      ![sub].is_verified = FALSE]
            /\ resp' = Response("update_profile", None, 200, "")

RemoveUserDevice(sub, device_id) ==
    /\ UNCHANGED <<password_history, users, next_id, next_dev, redis, next_tok, access>>
    /\ IF GetCurrentUser(sub) # 200
       THEN /\ resp' = AuthError("remove_device", GetCurrentUser(sub))
            /\ UNCHANGED devices
       ELSE IF device_id \notin UserDevices(devices, sub)
       THEN /\ resp' = Response("remove_device", None, 404, "Device not found")
            /\ UNCHANGED devices
       ELSE /\ devices' = [i \in DOMAIN devices \ {device_id} |-> devices[i]]
            /\ resp' = Response("remove_device", None, 200, "Device removed successfully")

\* new_password values a change-password request may carry: one too short,
\* the others of the minimum length
MinPasswordLen == 8
LongPassword(c) == [i \in 1..MinPasswordLen |-> c]
NewPasswords == {<<"p">>, LongPassword("A"), LongPassword("B")}

\* faulty variant: the history query without its .limit(5)
WholeHistory(h, user_id) ==
    LET mine == SelectSeq(h, LAMBDA r : r.user_id = user_id)
    IN  {mine[i] : i \in 1..Len(mine)}

\* query(PasswordHistory).filter(user_id).order_by(created_at.desc()).limit(5)
HistoryLimit == 5
RecentHistory(h, user_id) ==
    LET mine == SelectSeq(h, LAMBDA r : r.user_id = user_id)
        n == Len(mine)
    IN  {mine[i] : i \in (IF n > HistoryLimit THEN n - HistoryLimit + 1 ELSE 1)..n}

ChangePassword(sub, current_password, new_password) ==
    /\ UNCHANGED <<next_id, devices, next_dev, redis, next_tok, access>>
    /\ IF GetCurrentUser(sub) # 200
       THEN /\ resp' = AuthError("change_password", GetCurrentUser(sub))
            /\ UNCHANGED <<users, password_history>>
       ELSE IF ~VerifyPassword(current_password, users[sub].hashed_password, users[sub].salt)
       THEN /\ resp' = Response("change_password", None, 400, "Current password is incorrect")
            /\ UNCHANGED <<users, password_history>>
       ELSE IF Len(new_password) < MinPasswordLen
       THEN /\ resp' = Response("change_password", None, 400, "Password must be at least 8 characters long")
            /\ UNCHANGED <<users, password_history>>
       ELSE IF \E old_password \in RecentHistory(password_history, sub) :
                  VerifyPassword(new_password, old_password.hashed_password, old_password.salt)
       THEN /\ resp' = Response("change_password", None, 400, "Cannot reuse recent passwords")
            /\ UNCHANGED <<users, password_history>>
       ELSE \E new_salt \in Salts :
              /\ password_history' = Append(password_history,
                                            [user_id |-> sub,
                                             hashed_password |-> users[sub].hashed_password,
                                             salt |-> users[sub].salt])
              /\ users' = [users EXCEPT ![sub].hashed_password = GetPasswordHash(new_password, new_salt),
                                        ![sub].salt = new_salt]
              /\ resp' = Response("change_password", None, 200, "Password changed successfully")

-----------------------------------------------------------------------------
(* models/user.py *)

\* users.is_active, "For soft delete / account disable": no handler writes
\* the column, an operator clears it in the database.  The step counts
\* against the budget of operations and leaves no response.
DisableAccount(user_id) ==
    /\ user_id \in DOMAIN users
    /\ users[user_id].is_active
    /\ users' = [users EXCEPT ![user_id].is_active = FALSE]
    /\ resp' = Response("none", None, 0, "")
    /\ UNCHANGED <<password_history, next_id, devices, next_dev, redis, next_tok, access>>

-----------------------------------------------------------------------------
(* routers/auth.py, the router main.py mounts under /auth *)

\* redis_client.setex is called without await on the asyncio client: the
\* coroutine never runs and no key is written
LegacySignup(email, password, role) ==
    /\ UNCHANGED <<password_history, devices, next_dev, redis, next_tok, access>>
    /\ IF UsersByEmail(users, email) # {}
       THEN /\ resp' = Response("legacy_signup", email, 400, "Email already registered")
            /\ UNCHANGED <<users, next_id>>
       ELSE \E salt \in Salts, code \in Codes :
            /\ next_id <= MaxUsers
            /\ users' = InsertUser(users, next_id,
                           [email |-> email, name |-> None,
                            hashed_password |-> GetPasswordHash(password, salt),
                            salt |-> salt,
                            role |-> IF role # None THEN role ELSE "patient",
                            is_verified |-> FALSE, is_active |-> TRUE])
            /\ next_id' = next_id + 1
            /\ resp' = [Response("legacy_signup", email, 201, "User created. Please check your email for verification code.")
                          EXCEPT !.mail = code]

\* redis_client.get is called without await: stored_code is a coroutine
\* object, which is truthy and equal to no string, so every request ends at
\* the code comparison
LegacyVerifyEmail(email, code) ==
    /\ resp' = Response("legacy_verify_email", email, 400, "Invalid verification code")
    /\ UNCHANGED <<db, redis, next_tok, access>>

\* what verify_password is handed as hashed_password is an Argon2 hash
IsArgon2Hash(value) == value \notin Salts

\* verify_password(password, user.salt, user.hashed_password): the salt is
\* passed as the hash and the hash as the salt.  pwd_context.verify raises
\* UnknownHashError for a string that is not an Argon2 hash, and the
\* exception surfaces as a 500.  The token carries sub = email, which
\* get_current_user cannot convert to a user id.
LegacyLogin(email, password) ==
    /\ UNCHANGED <<db, redis, next_tok, access>>
    /\ IF UsersByEmail(users, email) = {}
       THEN resp' = Response("legacy_login", email, 403, "Invalid credentials")
       ELSE LET user == users[CHOOSE i \in UsersByEmail(users, email) : TRUE] IN
            IF ~user.is_verified
            THEN resp' = Response("legacy_login", email, 403, "Email not verified")
            ELSE IF ~IsArgon2Hash(user.salt)
            THEN resp' = Response("legacy_login", email, 500, "Internal Server Error")
            ELSE IF ~VerifyPassword(password, user.salt, user.hashed_password)
            THEN resp' = Response("legacy_login", email, 403, "Invalid credentials")
            ELSE resp' = [Response("legacy_login", email, 200, "") EXCEPT !.token = <<"bearer">>]

-----------------------------------------------------------------------------
(* The clock: every TTL runs down, and Redis drops a key whose TTL is over *)

Tick ==
    /\ redis' = [k \in {k \in DOMAIN redis : redis[k].ttl > 1} |->
                   [redis[k] EXCEPT !.ttl = @ - 1]]
    /\ access' = [i \in DOMAIN access |-> IF access[i] > 0 THEN access[i] - 1 ELSE 0]
    /\ UNCHANGED <<db, next_tok, resp, nreq, inflight, failed_logins, profile_vars>>

\* one more request is handled, start to end
Served ==
    nreq < MaxRequests /\ nreq' = nreq + 1 /\ UNCHANGED <<inflight, failed_logins, profile_vars>>

-----------------------------------------------------------------------------

Next ==
    \/ \E e \in Emails, p \in Passwords, n \in Names, r \in Roles \cup {None} :
         Served /\ Register(e, p, n, r)
    \/ \E e \in Emails, vc \in Codes \cup {None}, c \in Codes \cup {None} :
         Served /\ VerifyEmail(e, vc, c)
    \/ \E e \in Emails, p \in Passwords, fp \in ClientFingerprints \cup {NoFingerprint},
          ua \in UserAgents, ip \in ClientIps :
         Served /\ Login(e, p, fp, ua, ip)
    \/ \E e \in Emails, c \in Codes, fp \in ClientFingerprints \cup {NoFingerprint} :
         Served /\ VerifyDevice(e, c, fp)
    \/ \E t \in RefreshCookies : Served /\ RefreshToken(t)
    \/ \E t \in RefreshCookies : Served /\ Logout(t)
    \/ \E e \in Emails : Served /\ ForgotPassword(e)
    \/ \E e \in Emails, rc \in Codes \cup {None}, c \in Codes \cup {None}, p \in Passwords :
         Served /\ ResetPassword(e, rc, c, p)
    \/ \E e \in Emails : Served /\ ResendVerification(e)
    \/ \E sub \in 1..MaxUsers, e \in UpdateEmails \cup {None} :
         Served /\ UpdateCurrentUserProfile(sub, e)
    \/ \E sub \in 1..MaxUsers, d \in 1..MaxDevices : Served /\ RemoveUserDevice(sub, d)
    \/ \E e \in Emails, p \in Passwords, r \in Roles \cup {None} :
         Served /\ LegacySignup(e, p, r)
    \/ \E id \in 1..MaxUsers : Served /\ DisableAccount(id)
    \/ \E e \in Emails, c \in Codes : Served /\ LegacyVerifyEmail(e, c)
    \/ \E e \in Emails, p \in Passwords : Served /\ LegacyLogin(e, p)
    \/ Tick

Spec == Init /\ [][Next]_vars

-----------------------------------------------------------------------------
(* The same handlers, one store round trip at a time.  A worker suspends at
   every Redis await and between a query and the commit that follows it, and
   another worker's request may run in between. *)

\* verify_email step 1: redis_client.get, then the code comparison
VerifyEmailGet(w, email, verification_code, code_field) ==
    /\ inflight[w] = Idle
    /\ nreq < MaxRequests /\ nreq' = nreq + 1
    /\ UNCHANGED <<db, redis, next_tok, access, failed_logins, profile_vars>>
    /\ IF ~Exists(RegistrationKey(email))
       THEN /\ resp' = Response("verify_email", email, 400, "Verification code expired or invalid")
            /\ UNCHANGED inflight
       ELSE IF Get(RegistrationKey(email)).code # GetCode(verification_code, code_field)
       THEN /\ resp' = Response("verify_email", email, 400, "Invalid verification code")
            /\ UNCHANGED inflight
       ELSE /\ inflight' = [inflight EXCEPT ![w] =
                              [op |-> "verify_email", pc |-> "commit", email |-> email,
                               sub |-> 0, data |-> Get(RegistrationKey(email))]]
            /\ UNCHANGED resp

\* verify_email step 3: db.add, db.commit
VerifyEmailCommit(w) ==
    /\ inflight[w].op = "verify_email" /\ inflight[w].pc = "commit"
    /\ UNCHANGED <<password_history, devices, next_dev, redis, next_tok, access, failed_logins, profile_vars, nreq>>
    /\ LET stored_data == inflight[w].data IN
       IF UniqueViolation(users, next_id, stored_data.email)
       THEN /\ resp' = Response("verify_email", inflight[w].email, 500, "Database error during user creation")
            /\ inflight' = [inflight EXCEPT ![w] = Idle]
            /\ UNCHANGED <<users, next_id>>
       ELSE /\ next_id <= MaxUsers
            /\ users' = InsertUser(users, next_id,
                           [email |-> stored_data.email, name |-> stored_data.name,
                            hashed_password |-> stored_data.hashed_password,
                            salt |-> stored_data.salt, role |-> stored_data.role,
                            is_verified |-> TRUE, is_active |-> TRUE])
            /\ next_id' = next_id + 1
            /\ inflight' = [inflight EXCEPT ![w].pc = "delete"]
            /\ UNCHANGED resp

\* verify_email step 4: redis_client.delete
VerifyEmailDelete(w) ==
    /\ inflight[w].op = "verify_email" /\ inflight[w].pc = "delete"
    /\ UNCHANGED <<db, next_tok, access, failed_logins, profile_vars, nreq>>
    /\ redis' = VerifyEmailCleanup(redis, inflight[w].email)
    /\ resp' = Response("verify_email", inflight[w].email, 200, "Email verified successfully. You can now login.")
    /\ inflight' = [inflight EXCEPT ![w] = Idle]

\* update_current_user_profile up to the query for another holder of the email
UpdateProfileQuery(w, sub, email) ==
    /\ inflight[w] = Idle
    /\ nreq < MaxRequests /\ nreq' = nreq + 1
    /\ UNCHANGED <<db, redis, next_tok, access, failed_logins, profile_vars>>
    /\ IF GetCurrentUser(sub) # 200
       THEN /\ resp' = AuthError("update_profile", GetCurrentUser(sub))
            /\ UNCHANGED inflight
       ELSE IF email # None /\ UsersByEmail(users, SanitizeEmail(email)) \ {sub} # {}
       THEN /\ resp' = Response("update_profile", None, 500, "Failed to update profile")
            /\ UNCHANGED inflight
       ELSE /\ inflight' = [inflight EXCEPT ![w] =
                              [op |-> "update_profile", pc |-> "commit",
                               email |-> IF email = None THEN None ELSE SanitizeEmail(email),
                               sub |-> sub, data |-> << >>]]
            /\ UNCHANGED resp

\* update_current_user_profile: db.commit; an IntegrityError (or the row being
\* gone) lands in "except Exception"
UpdateProfileCommit(w) ==
    /\ inflight[w].op = "update_profile" /\ inflight[w].pc = "commit"
    /\ UNCHANGED <<password_history, next_id, devices, next_dev, redis, next_tok, access, failed_logins, profile_vars, nreq>>
    /\ inflight' = [inflight EXCEPT ![w] = Idle]
    /\ LET sub == inflight[w].sub
           email == inflight[w].email
       IN
       IF email = None
       THEN /\ resp' = Response("update_profile", None, 200, "")
            /\ UNCHANGED users
       ELSE IF sub \notin DOMAIN users \/ UniqueViolation(users, sub, email)
       THEN /\ resp' = Response("update_profile", None, 500, "Failed to update profile")
            /\ UNCHANGED users
       ELSE /\ users' = [users EXCEPT ![sub].email = email, ![sub].is_verified = FALSE]
            /\ resp' = Response("update_profile", None, 200, "")

NextConc ==
    \/ \E e \in Emails, p \in Passwords, n \in Names, r \in Roles \cup {None} :
         Served /\ Register(e, p, n, r)
    \/ \E e \in Emails, p \in Passwords, fp \in ClientFingerprints \cup {NoFingerprint},
          ua \in UserAgents, ip \in ClientIps :
         Served /\ Login(e, p, fp, ua, ip)
    \/ \E e \in Emails, p \in Passwords, r \in Roles \cup {None} :
         Served /\ LegacySignup(e, p, r)
    \/ \E w \in Workers, e \in Emails, vc \in Codes \cup {None}, c \in Codes \cup {None} :
         VerifyEmailGet(w, e, vc, c)
    \/ \E w \in Workers : VerifyEmailCommit(w)
    \/ \E w \in Workers : VerifyEmailDelete(w)
    \/ \E w \in Workers, sub \in 1..MaxUsers, e \in UpdateEmails \cup {None} :
         UpdateProfileQuery(w, sub, e)
    \/ \E w \in Workers : UpdateProfileCommit(w)
    \/ Tick

ConcSpec == Init /\ [][NextConc]_vars

-----------------------------------------------------------------------------
(* Password changes of an account with a password history *)

MaxHistory == 6

\* passwords long enough for change_password
LongPasswords == {p \in NewPasswords : Len(p) >= MinPasswordLen}

\* a password_history row of the seeded account
HistoryRows ==
    {[user_id |-> 1, hashed_password |-> GetPasswordHash(p, s), salt |-> s] :
        p \in LongPasswords, s \in Salts}

\* The seeded account after any number of earlier password changes and a
\* reset back to the seed password: its history rows are any of the model's.
PwInit ==
    /\ users = [i \in {1} |->
                  [email |-> "a@x", name |-> "n",
                   hashed_password |-> GetPasswordHash(SeedPassword, SeedSalt),
                   salt |-> SeedSalt, role |-> "patient",
                   is_verified |-> TRUE, is_active |-> TRUE]]
    /\ next_id = 2
    /\ password_history \in UNION {[1..n -> HistoryRows] : n \in 0..MaxHistory}
    /\ devices = << >>
    /\ next_dev = 1
    /\ redis = << >>
    /\ next_tok = 0
    /\ access = [i \in 1..MaxUsers |-> 0]
    /\ resp = Response("none", None, 0, "")
    /\ nreq = 0
    /\ inflight = [w \in Workers |-> Idle]
    /\ failed_logins = [e \in Emails |-> 0]
    /\ user_profiles = << >>
    /\ encryption_manager = [env |-> None, cipher |-> None]
    /\ profile_resp = NoProfileRequest

PwNext ==
    \/ \E e \in Emails, p \in Passwords \cup NewPasswords,
          fp \in ClientFingerprints \cup {NoFingerprint},
          ua \in UserAgents, ip \in ClientIps :
         Served /\ Login(e, p, fp, ua, ip)
    \/ \E sub \in 1..MaxUsers, cur \in Passwords \cup NewPasswords, new \in NewPasswords :
         Served /\ ChangePassword(sub, cur, new)
    \/ Tick

PwSpec == PwInit /\ [][PwNext]_vars

-----------------------------------------------------------------------------
(* Repeated logins, as in test_security_features.py test_account_lockout *)

\* a login refused with 401 for an address that has an account (an unknown
\* address is refused before any password check)
WrongPassword(email) ==
    resp'.status = 401 /\ UsersByEmail(users, email) # {}

\* one login is handled and the observer counts it when the password was wrong
LoginCounted(email, password, device_fingerprint, user_agent, client_ip) ==
    /\ nreq < MaxRequests /\ nreq' = nreq + 1
    /\ UNCHANGED <<inflight, profile_vars>>
    /\ Login(email, password, device_fingerprint, user_agent, client_ip)
    /\ failed_logins' = [failed_logins EXCEPT
                           ![email] = IF WrongPassword(email) THEN @ + 1 ELSE @]

LockNext ==
    \/ \E e \in Emails, p \in Passwords, fp \in ClientFingerprints \cup {NoFingerprint},
          ua \in UserAgents, ip \in ClientIps :
         LoginCounted(e, p, fp, ua, ip)
    \/ Tick

LockSpec == Init /\ [][LockNext]_vars

-----------------------------------------------------------------------------
(* routers/user_management.py: the profile handlers, with the process-wide
   encryption manager of utils/encryption.py *)

ProfileBodies == UNION {[fs -> FieldValues] : fs \in SUBSET SensitiveFields}

\* POST /api/v1/users/me/profile
CreateOrUpdateProfile(sub, profile_data) ==
    /\ UNCHANGED <<db, redis, next_tok, access, resp>>
    /\ IF GetCurrentUser(sub) # 200
       THEN /\ profile_resp' = ProfileResponse("create_or_update_profile", sub, profile_data,
                                               GetCurrentUser(sub), << >>)
            /\ UNCHANGED <<user_profiles, encryption_manager>>
       ELSE \E key \in ManagerKeys(encryption_manager), ivs \in [DOMAIN profile_data -> IVs] :
              LET sanitized == SanitizeUserInput(profile_data)
                  encrypted_data == EncryptDict(key, ivs, sanitized, SensitiveFields)
                  profile == IF sub \in DOMAIN user_profiles
                             THEN [f \in DOMAIN user_profiles[sub] \cup DOMAIN encrypted_data |->
                                     IF f \in DOMAIN encrypted_data THEN encrypted_data[f]
                                     ELSE user_profiles[sub][f]]
                             ELSE encrypted_data
              IN /\ encryption_manager' = [encryption_manager EXCEPT !.cipher = key]
                 /\ IF DataError(profile)
                    THEN /\ UNCHANGED user_profiles
                         /\ profile_resp' = ProfileResponse("create_or_update_profile", sub,
                                                            profile_data, 500, << >>)
                    ELSE /\ user_profiles' = [u \in DOMAIN user_profiles \cup {sub} |->
                                                IF u = sub THEN profile ELSE user_profiles[u]]
                         /\ profile_resp' = ProfileResponse("create_or_update_profile", sub,
                                                            profile_data, 200, << >>)

\* GET /api/v1/users/me/profile
GetUserProfile(sub) ==
    /\ UNCHANGED <<db, redis, next_tok, access, resp, user_profiles>>
    /\ IF GetCurrentUser(sub) # 200
       THEN /\ profile_resp' = ProfileResponse("get_user_profile", sub, << >>, GetCurrentUser(sub), << >>)
            /\ UNCHANGED encryption_manager
       ELSE IF sub \notin DOMAIN user_profiles
       THEN /\ profile_resp' = ProfileResponse("get_user_profile", sub, << >>, 200, << >>)
            /\ UNCHANGED encryption_manager
       ELSE \E key \in ManagerKeys(encryption_manager) :
              /\ encryption_manager' = [encryption_manager EXCEPT !.cipher = key]
              /\ profile_resp' = ProfileResponse("get_user_profile", sub, << >>, 200,
                                    DecryptDict(key, user_profiles[sub], SensitiveFields))

\* the server process is started again: the singleton is gone, the database stays
Restart ==
    /\ encryption_manager.cipher # None
    /\ encryption_manager' = [encryption_manager EXCEPT !.cipher = None]
    /\ UNCHANGED <<db, redis, next_tok, access, resp, nreq, inflight, failed_logins,
                   user_profiles, profile_resp>>

\* profile requests handled in one behaviour
MaxProfileRequests == 2

ProfileServed ==
    nreq < MaxProfileRequests /\ nreq' = nreq + 1 /\ UNCHANGED <<inflight, failed_logins>>

\* the seeded account after a login, its client holding the access token,
\* with ENCRYPTION_MASTER_KEY set or not
ProfileInit ==
    /\ users = [i \in {1} |->
                  [email |-> "a@x", name |-> "n",
                   hashed_password |-> GetPasswordHash(SeedPassword, SeedSalt),
                   salt |-> SeedSalt, role |-> "patient",
                   is_verified |-> TRUE, is_active |-> TRUE]]
    /\ next_id = 2
    /\ password_history = << >>
    /\ devices = << >>
    /\ next_dev = 1
    /\ redis = << >>
    /\ next_tok = 0
    /\ access = [i \in 1..MaxUsers |-> IF i = 1 THEN AccessTTL ELSE 0]
    /\ resp = Response("none", None, 0, "")
    /\ nreq = 0
    /\ inflight = [w \in Workers |-> Idle]
    /\ failed_logins = [e \in Emails |-> 0]
    /\ user_profiles = << >>
    /\ \E env \in {None, "k1"} : encryption_manager = [env |-> env, cipher |-> None]
    /\ profile_resp = NoProfileRequest

ProfileNext ==
    \/ \E sub \in 1..MaxUsers, body \in ProfileBodies :
         ProfileServed /\ CreateOrUpdateProfile(sub, body)
    \/ \E sub \in 1..MaxUsers : ProfileServed /\ GetUserProfile(sub)
    \/ Restart
    \/ Tick

ProfileSpec == ProfileInit /\ [][ProfileNext]_vars

-----------------------------------------------------------------------------
(* register, resend_verification and verify_email of routers/auth_v2.py, each
   split at its awaits on the Redis client: between two steps of one request
   the steps of another request may run *)

\* register steps 1 and 2: the query for the account, redis_client.get
RegisterCheck(w, email, password, name, role) ==
    /\ inflight[w] = Idle
    /\ nreq < MaxRequests /\ nreq' = nreq + 1
    /\ UNCHANGED <<db, redis, next_tok, access, failed_logins, profile_vars>>
    /\ IF UsersByEmail(users, email) # {}
       THEN /\ resp' = Response("register", email, 400, "Email already registered")
            /\ UNCHANGED inflight
       ELSE IF Exists(RegistrationKey(email))
       THEN /\ resp' = Response("register", email, 400, "Verification code already sent. Please check your email.")
            /\ UNCHANGED inflight
       ELSE /\ inflight' = [inflight EXCEPT ![w] =
                              [op |-> "register", pc |-> "store", email |-> email, sub |-> 0,
                               data |-> [password |-> password, name |-> name, role |-> role]]]
            /\ UNCHANGED resp

\* register steps 3 to 7: salt, hash, code, redis_client.setex, the response
RegisterStore(w) ==
    /\ inflight[w].op = "register" /\ inflight[w].pc = "store"
    /\ UNCHANGED <<db, next_tok, access, failed_logins, profile_vars, nreq>>
    /\ inflight' = [inflight EXCEPT ![w] = Idle]
    /\ LET email == inflight[w].email
           user == inflight[w].data
       IN \E salt \in Salts, code \in Codes :
            /\ redis' = SetEx(redis, RegistrationKey(email), CodeTTL,
                              [email |-> email, name |-> user.name,
                               hashed_password |-> GetPasswordHash(user.password, salt),
                               salt |-> salt,
                               role |-> IF user.role # None THEN user.role ELSE "patient",
                               code |-> code])
            /\ resp' = [Response("register", email, 201, "Registration successful. Please check your email to verify your account.")
                          EXCEPT !.mail = code]

\* resend_verification: redis_client.get
ResendGet(w, email) ==
    /\ inflight[w] = Idle
    /\ nreq < MaxRequests /\ nreq' = nreq + 1
    /\ UNCHANGED <<db, redis, next_tok, access, failed_logins, profile_vars>>
    /\ IF ~Exists(RegistrationKey(email))
       THEN /\ resp' = Response("resend_verification", email, 400, "No pending verification found. Please register again.")
            /\ UNCHANGED inflight
       ELSE /\ inflight' = [inflight EXCEPT ![w] =
                              [op |-> "resend_verification", pc |-> "store", email |-> email,
                               sub |-> 0, data |-> Get(RegistrationKey(email))]]
            /\ UNCHANGED resp

\* resend_verification: the new code, redis_client.setex of the record read
\* before, the response
ResendStore(w) ==
    /\ inflight[w].op = "resend_verification" /\ inflight[w].pc = "store"
    /\ UNCHANGED <<db, next_tok, access, failed_logins, profile_vars, nreq>>
    /\ inflight' = [inflight EXCEPT ![w] = Idle]
    /\ \E new_code \in Codes :
         /\ redis' = SetEx(redis, RegistrationKey(inflight[w].email), CodeTTL,
                           [inflight[w].data EXCEPT !.code = new_code])
         /\ resp' = [Response("resend_verification", inflight[w].email, 200, "Verification code resent. Please check your email.")
                       EXCEPT !.mail = new_code]

RegNext ==
    \/ \E w \in Workers, e \in Emails, p \in Passwords, n \in Names, r \in Roles \cup {None} :
         RegisterCheck(w, e, p, n, r)
    \/ \E w \in Workers : RegisterStore(w)
    \/ \E w \in Workers, e \in Emails : ResendGet(w, e)
    \/ \E w \in Workers : ResendStore(w)
    \/ \E w \in Workers, e \in Emails, vc \in Codes \cup {None}, c \in Codes \cup {None} :
         VerifyEmailGet(w, e, vc, c)
    \/ \E w \in Workers : VerifyEmailCommit(w)
    \/ \E w \in Workers : VerifyEmailDelete(w)
    \/ Tick

RegSpec == Init /\ [][RegNext]_vars

-----------------------------------------------------------------------------
(* login, verify_device and reset_password of routers/auth_v2.py as requests
   of concurrent server workers: each is split where it goes to a store a
   second time after reading from it *)

\* rows of user_devices and refresh tokens that concurrent requests may create
MaxRaceDevices == 3
MaxRaceTokens == 3

\* login steps 6 and 7 and verify_device steps 7 and 8 of an in-flight request
RaceSessionIssued(op, email, user_id, detail) ==
    /\ next_tok < MaxRaceTokens
    /\ next_tok' = next_tok + 1
    /\ redis' = SetEx(redis, RefreshKey(user_id, TokenOf(next_tok + 1)), RefreshTTL,
                      [user_id |-> user_id, email |-> users[user_id].email])
    /\ access' = [access EXCEPT ![user_id] = AccessTTL]
    /\ resp' = [Response(op, email, 200, detail) EXCEPT !.cookies = "auth",
                                                 !.token = TokenOf(next_tok + 1)]

\* the account a login would treat as logging in for the first time
FirstLoginUser(email, password) ==
    {i \in UsersByEmail(users, email) :
        /\ i = (CHOOSE j \in UsersByEmail(users, email) : TRUE)
        /\ users[i].is_active /\ users[i].is_verified
        /\ VerifyPassword(password, users[i].hashed_password, users[i].salt)
        /\ UserDevices(devices, i) = {}}

\* login up to the query for the account's devices; every outcome but the
\* first login is completed here
LoginQuery(w, email, password, device_fingerprint, user_agent, client_ip) ==
    /\ inflight[w] = Idle
    /\ nreq < MaxRequests /\ nreq' = nreq + 1
    /\ UNCHANGED <<failed_logins, profile_vars>>
    /\ IF FirstLoginUser(email, password) = {}
       THEN /\ Login(email, password, device_fingerprint, user_agent, client_ip)
            /\ UNCHANGED inflight
       ELSE /\ inflight' = [inflight EXCEPT ![w] =
                              [op |-> "login", pc |-> "first_login", email |-> email,
                               sub |-> CHOOSE i \in FirstLoginUser(email, password) : TRUE,
                               data |-> [fingerprint |->
                                           IF device_fingerprint # NoFingerprint
                                           THEN device_fingerprint
                                           ELSE GenerateDeviceFingerprint(user_agent, client_ip),
                                         code |-> None]]]
            /\ UNCHANGED <<db, redis, next_tok, access, resp>>

\* login, first-login branch: the device row is inserted and committed
LoginFirstCommit(w) ==
    /\ inflight[w].op = "login" /\ inflight[w].pc = "first_login"
    /\ next_dev <= MaxRaceDevices
    /\ devices' = InsertDevice(devices, next_dev,
                     [user_id |-> inflight[w].sub, fingerprint_hash |-> inflight[w].data.fingerprint])
    /\ next_dev' = next_dev + 1
    /\ inflight' = [inflight EXCEPT ![w].pc = "session"]
    /\ UNCHANGED <<password_history, users, next_id, redis, next_tok, access, resp,
                   failed_logins, profile_vars, nreq>>

\* login steps 6 and 7 after a first login
LoginSession(w) ==
    /\ inflight[w].op = "login" /\ inflight[w].pc = "session"
    /\ inflight[w].sub \in DOMAIN users
    /\ RaceSessionIssued("login", inflight[w].email, inflight[w].sub, "Login successful")
    /\ inflight' = [inflight EXCEPT ![w] = Idle]
    /\ UNCHANGED <<db, failed_logins, profile_vars, nreq>>

\* verify_device steps 1 to 3: redis_client.get, the code comparison
VerifyDeviceGet(w, email, verification_code, device_fingerprint) ==
    /\ inflight[w] = Idle
    /\ nreq < MaxRequests /\ nreq' = nreq + 1
    /\ UNCHANGED <<db, redis, next_tok, access, failed_logins, profile_vars>>
    /\ IF ~Exists(DeviceVerifyKey(email))
       THEN /\ resp' = Response("verify_device", email, 400, "Verification code expired or invalid")
            /\ UNCHANGED inflight
       ELSE IF Get(DeviceVerifyKey(email)).code # verification_code
       THEN /\ resp' = Response("verify_device", email, 400, "Invalid verification code")
            /\ UNCHANGED inflight
       ELSE /\ inflight' = [inflight EXCEPT ![w] =
                              [op |-> "verify_device", pc |-> "commit", email |-> email, sub |-> 0,
                               data |-> [Get(DeviceVerifyKey(email)) EXCEPT
                                           !.fingerprint = IF device_fingerprint # NoFingerprint
                                                           THEN device_fingerprint ELSE @]]]
            /\ UNCHANGED resp

\* verify_device steps 4 and 5: the account, the new device row
VerifyDeviceCommit(w) ==
    /\ inflight[w].op = "verify_device" /\ inflight[w].pc = "commit"
    /\ UNCHANGED <<password_history, users, next_id, redis, next_tok, access,
                   failed_logins, profile_vars, nreq>>
    /\ IF UsersByEmail(users, inflight[w].email) = {}
       THEN /\ resp' = Response("verify_device", inflight[w].email, 404, "User not found")
            /\ inflight' = [inflight EXCEPT ![w] = Idle]
            /\ UNCHANGED <<devices, next_dev>>
       ELSE LET user_id == CHOOSE i \in UsersByEmail(users, inflight[w].email) : TRUE IN
            /\ next_dev <= MaxRaceDevices
            /\ devices' = InsertDevice(devices, next_dev,
                             [user_id |-> user_id, fingerprint_hash |-> inflight[w].data.fingerprint])
            /\ next_dev' = next_dev + 1
            /\ inflight' = [inflight EXCEPT ![w].pc = "delete", ![w].sub = user_id]
            /\ UNCHANGED resp

\* verify_device step 6: redis_client.delete
VerifyDeviceDelete(w) ==
    /\ inflight[w].op = "verify_device" /\ inflight[w].pc = "delete"
    /\ redis' = VerifyDeviceCleanup(redis, inflight[w].email)
    /\ inflight' = [inflight EXCEPT ![w].pc = "session"]
    /\ UNCHANGED <<db, next_tok, access, resp, failed_logins, profile_vars, nreq>>

\* verify_device steps 7 and 8
VerifyDeviceSession(w) ==
    /\ inflight[w].op = "verify_device" /\ inflight[w].pc = "session"
    /\ inflight[w].sub \in DOMAIN users
    /\ RaceSessionIssued("verify_device", inflight[w].email, inflight[w].sub,
                         "Device verified successfully")
    /\ inflight' = [inflight EXCEPT ![w] = Idle]
    /\ UNCHANGED <<db, failed_logins, profile_vars, nreq>>

\* reset_password: redis_client.get, the code comparison
ResetGet(w, email, reset_code, code_field, new_password) ==
    /\ inflight[w] = Idle
    /\ nreq < MaxRequests /\ nreq' = nreq + 1
    /\ UNCHANGED <<db, redis, next_tok, access, failed_logins, profile_vars>>
    /\ IF ~Exists(ResetKey(email)) \/ Get(ResetKey(email)) # GetResetCode(reset_code, code_field)
       THEN /\ resp' = Response("reset_password", email, 400, "Invalid or expired reset code")
            /\ UNCHANGED inflight
       ELSE /\ inflight' = [inflight EXCEPT ![w] =
                              [op |-> "reset_password", pc |-> "commit", email |-> email, sub |-> 0,
                               data |-> [new_password |-> new_password,
                                         code |-> Get(ResetKey(email))]]]
            /\ UNCHANGED resp

\* reset_password: the account, the new salt and hash, db.commit
ResetCommit(w) ==
    /\ inflight[w].op = "reset_password" /\ inflight[w].pc = "commit"
    /\ UNCHANGED <<password_history, next_id, devices, next_dev, redis, next_tok, access,
                   failed_logins, profile_vars, nreq>>
    /\ IF UsersByEmail(users, inflight[w].email) = {}
       THEN /\ resp' = Response("reset_password", inflight[w].email, 404, "User not found")
            /\ inflight' = [inflight EXCEPT ![w] = Idle]
            /\ UNCHANGED users
       ELSE LET user_id == CHOOSE i \in UsersByEmail(users, inflight[w].email) : TRUE IN
            \E new_salt \in Salts :
              /\ users' = [users EXCEPT
                             ![user_id].hashed_password =
                                 GetPasswordHash(inflight[w].data.new_password, new_salt),
                             ![user_id].salt = new_salt]
              /\ inflight' = [inflight EXCEPT ![w].pc = "delete"]
              /\ UNCHANGED resp

\* reset_password: redis_client.delete, the response
ResetDelete(w) ==
    /\ inflight[w].op = "reset_password" /\ inflight[w].pc = "delete"
    /\ redis' = Delete(redis, ResetKey(inflight[w].email))
    /\ resp' = Response("reset_password", inflight[w].email, 200, "Password reset successful")
    /\ inflight' = [inflight EXCEPT ![w] = Idle]
    /\ UNCHANGED <<db, next_tok, access, failed_logins, profile_vars, nreq>>

DevNext ==
    \/ \E w \in Workers, e \in Emails, p \in Passwords,
          fp \in ClientFingerprints \cup {NoFingerprint}, ua \in UserAgents, ip \in ClientIps :
         LoginQuery(w, e, p, fp, ua, ip)
    \/ \E w \in Workers : LoginFirstCommit(w)
    \/ \E w \in Workers : LoginSession(w)
    \/ \E w \in Workers, e \in Emails, c \in Codes, fp \in ClientFingerprints \cup {NoFingerprint} :
         VerifyDeviceGet(w, e, c, fp)
    \/ \E w \in Workers : VerifyDeviceCommit(w)
    \/ \E w \in Workers : VerifyDeviceDelete(w)
    \/ \E w \in Workers : VerifyDeviceSession(w)
    \/ \E e \in Emails : Served /\ ForgotPassword(e)
    \/ \E w \in Workers, e \in Emails, rc \in Codes, p \in Passwords :
         ResetGet(w, e, rc, None, p)
    \/ \E w \in Workers : ResetCommit(w)
    \/ \E w \in Workers : ResetDelete(w)
    \/ Tick

DevSpec == Init /\ [][DevNext]_vars

-----------------------------------------------------------------------------
(* The requests an account's owner has for getting an address verified, in a
   system that keeps serving: whenever a request or the clock can take a step,
   one eventually does *)

\* requests that may write to the database or to Redis in a behaviour of
\* LiveSpec; requests that come later are served as long as they write nothing
MaxLiveRequests == 3

LiveServed ==
    /\ UNCHANGED <<inflight, failed_logins, profile_vars>>
    /\ IF nreq < MaxLiveRequests
       THEN nreq' = nreq + 1
       ELSE UNCHANGED <<nreq, db, redis, next_tok, access>>

LiveNext ==
    \/ \E e \in Emails, p \in Passwords, n \in Names, r \in Roles \cup {None} :
         LiveServed /\ Register(e, p, n, r)
    \/ \E e \in Emails, vc \in Codes \cup {None}, c \in Codes \cup {None} :
         LiveServed /\ VerifyEmail(e, vc, c)
    \/ \E e \in Emails : LiveServed /\ ResendVerification(e)
    \/ \E e \in Emails, p \in Passwords, fp \in ClientFingerprints \cup {NoFingerprint},
          ua \in UserAgents, ip \in ClientIps :
         LiveServed /\ Login(e, p, fp, ua, ip)
    \/ \E sub \in 1..MaxUsers, e \in UpdateEmails \cup {None} :
         LiveServed /\ UpdateCurrentUserProfile(sub, e)
    \/ \E e \in Emails, p \in Passwords, r \in Roles \cup {None} :
         LiveServed /\ LegacySignup(e, p, r)
    \/ \E e \in Emails, c \in Codes : LiveServed /\ LegacyVerifyEmail(e, c)
    \/ Tick

LiveSpec == Init /\ [][LiveNext]_vars /\ WF_vars(LiveNext)

-----------------------------------------------------------------------------
(* Properties *)

RequestCodes == Codes \cup {None}

\* this step handles a request of the given kind from start to end
Handled(op) == nreq' = nreq + 1 /\ resp'.op = op

\* C1: register(e) followed by verify-email(e, c) with the stored code c leaves
\* exactly one account with email e, verified and active, and no pending
\* registration for e; a verify-email for e while no pending registration is
\* live (the record was consumed) fails with "expired or invalid" and leaves
\* the users table alone; and a pending registration comes to exist only by an
\* accepted register.
C1_VerifyMaterializesOnce ==
    [][/\ Handled("verify_email") =>
          \A e \in {resp'.email}, vc \in RequestCodes, c \in RequestCodes :
             VerifyEmail(e, vc, c) =>
               /\ ( /\ resp.op = "register" /\ resp.status = 201 /\ resp.email = e
                    /\ Exists(RegistrationKey(e))
                    /\ Get(RegistrationKey(e)).code = GetCode(vc, c) )
                  => /\ resp'.status = 200
                     /\ Cardinality(UsersByEmail(users', e)) = 1
                     /\ \A i \in UsersByEmail(users', e) :
                          users'[i].is_verified /\ users'[i].is_active
                     /\ RegistrationKey(e) \notin DOMAIN redis'
               /\ ~Exists(RegistrationKey(e))
                  => /\ resp'.status = 400
                     /\ resp'.detail = "Verification code expired or invalid"
                     /\ users' = users
               /\ resp'.status = 200 => RegistrationKey(e) \notin DOMAIN redis'
       /\ \A e \in Emails :
            (~Exists(RegistrationKey(e)) /\ RegistrationKey(e) \in DOMAIN redis')
              => (resp'.op = "register" /\ resp'.status = 201 /\ resp'.email = e)
      ]_vars

\* a second verify-email for b@x was refused after the first one created the account
C1_Witness ==
    /\ resp.op = "verify_email" /\ resp.email = "b@x" /\ resp.status = 400
    /\ resp.detail = "Verification code expired or invalid"
    /\ \E i \in UsersByEmail(users, "b@x") : users[i].is_verified /\ users[i].is_active
    /\ ~Exists(RegistrationKey("b@x"))

\* C2: no two rows of the users table hold the same email, whatever the
\* interleaving of verify-email requests and profile email changes.
C2_UniqueEmails ==
    \A i \in DOMAIN users, j \in DOMAIN users : users[i].email = users[j].email => i = j

\* a verify-email has inserted the account b@x while a profile update that
\* found b@x free at its query is still to commit
C2_Witness ==
    \E w1 \in Workers, w2 \in Workers :
        /\ inflight[w1].op = "verify_email" /\ inflight[w1].pc = "delete"
        /\ inflight[w1].email = "b@x"
        /\ inflight[w2].op = "update_profile" /\ inflight[w2].email = "b@x"
        /\ UsersByEmail(users, "b@x") # {}

-----------------------------------------------------------------------------

RefreshKeys(r) == {k \in DOMAIN r : k[1] = "refresh_token"}

RequestFingerprints == ClientFingerprints \cup {NoFingerprint}

\* the fingerprint a login uses: the submitted one, else the one derived
\* from the request headers
UsedFingerprint(device_fingerprint, user_agent, client_ip) ==
    IF device_fingerprint # NoFingerprint THEN device_fingerprint
    ELSE GenerateDeviceFingerprint(user_agent, client_ip)

\* C3 (as claimed): no signup/register request, accepted or rejected,
\* inserts or modifies a row of the user store, and a row is inserted only
\* by a verify-email request whose code matched.
C3_AccountOnlyAtVerification ==
    [][/\ (nreq' = nreq + 1 /\ resp'.op \in {"register", "legacy_signup"})
            => users' = users
       /\ (DOMAIN users' # DOMAIN users)
            => (resp'.op = "verify_email" /\ resp'.status = 200)
      ]_vars

DeviceVerified(e, i, fp) ==
    /\ resp'.status = 200 /\ resp'.cookies = "auth"
    /\ DeviceVerifyKey(e) \notin DOMAIN redis'
    /\ DOMAIN devices' = DOMAIN devices \cup {next_dev}
    /\ next_dev \notin DOMAIN devices
    /\ \A d \in DOMAIN devices : devices'[d] = devices[d]
    /\ devices'[next_dev].user_id = i
    /\ devices'[next_dev].fingerprint_hash =
          (IF fp # NoFingerprint THEN fp ELSE Get(DeviceVerifyKey(e)).fingerprint)
    /\ RefreshKey(i, resp'.token) \notin DOMAIN redis
    /\ RefreshKeys(redis') = RefreshKeys(redis) \cup {RefreshKey(i, resp'.token)}

\* a verify-device without a live challenge
NoChallenge(e) ==
    ~Exists(DeviceVerifyKey(e))
      => /\ resp'.status = 400
         /\ resp'.detail = "Verification code expired or invalid"
         /\ devices' = devices /\ redis' = redis

\* C6 (as claimed): every verify-device whose code matches the live challenge
\* of the email adds one trusted device to that account, deletes the
\* challenge, stores a new refresh token and sets the cookies; without a live
\* challenge it fails 'expired or invalid' and adds no device.
C6_MatchingCodeAlwaysTrusts ==
    [][Handled("verify_device") =>
         \A e \in {resp'.email}, c \in Codes, fp \in RequestFingerprints :
            VerifyDevice(e, c, fp) =>
              /\ (Exists(DeviceVerifyKey(e)) /\ Get(DeviceVerifyKey(e)).code = c)
                   => \E i \in DOMAIN users : DeviceVerified(e, i, fp)
              /\ NoChallenge(e)
      ]_vars

\* C6 (amended): a verify-device whose code matches the live challenge of the
\* email, while an account still holds that email, adds exactly one trusted
\* device to that account, deletes the challenge, stores a new refresh token
\* and sets the cookies, so that a repeat finds no challenge and fails
\* 'expired or invalid' adding no device; when no account holds the email the
\* request fails 404 and changes nothing, the challenge included.
C6_MatchingCodeTrustsExistingAccount ==
    [][Handled("verify_device") =>
         \A e \in {resp'.email}, c \in Codes, fp \in RequestFingerprints :
            VerifyDevice(e, c, fp) =>
              /\ (Exists(DeviceVerifyKey(e)) /\ Get(DeviceVerifyKey(e)).code = c)
                   => IF UsersByEmail(users, e) # {}
                      THEN \A i \in UsersByEmail(users, e) : DeviceVerified(e, i, fp)
                      ELSE /\ resp'.status = 404 /\ resp'.detail = "User not found"
                           /\ resp'.cookies = "none"
                           /\ UNCHANGED <<db, redis, next_tok, access>>
              /\ NoChallenge(e)
      ]_vars

\* the repeat of a successful verify-device has failed: the account has its
\* second device and the challenge is gone
C6_Witness ==
    /\ resp.op = "verify_device" /\ resp.status = 400
    /\ resp.detail = "Verification code expired or invalid"
    /\ ~Exists(DeviceVerifyKey(resp.email))
    /\ next_tok = 2
    /\ \E i \in UsersByEmail(users, resp.email) : Cardinality(UserDevices(devices, i)) = 2

\* the code a request carries: its primary field, else the legacy alias
SubmittedCode(primary, alias) == IF primary # None THEN primary ELSE alias

\* C7: a verify-email, verify-device or reset-password request whose code
\* differs from the stored one fails with 400 and changes nothing: the stored
\* record with its code and remaining TTL, the accounts with their passwords,
\* the trusted devices and the sessions are as before, so the correct code is
\* still accepted until the record expires.
C7_WrongCodeChangesNothing ==
    [][/\ Handled("verify_email") =>
            \A e \in {resp'.email}, vc \in RequestCodes, c \in RequestCodes :
               (/\ Exists(RegistrationKey(e))
                /\ Get(RegistrationKey(e)).code # SubmittedCode(vc, c)
                /\ VerifyEmail(e, vc, c))
               => /\ resp'.status = 400 /\ resp'.cookies = "none"
                  /\ UNCHANGED <<db, redis, next_tok, access>>
       /\ Handled("verify_device") =>
            \A e \in {resp'.email}, c \in Codes, fp \in RequestFingerprints :
               (/\ Exists(DeviceVerifyKey(e))
                /\ Get(DeviceVerifyKey(e)).code # c
                /\ VerifyDevice(e, c, fp))
               => /\ resp'.status = 400 /\ resp'.cookies = "none"
                  /\ UNCHANGED <<db, redis, next_tok, access>>
       /\ Handled("reset_password") =>
            \A e \in {resp'.email}, rc \in RequestCodes, c \in RequestCodes, p \in Passwords :
               (/\ Exists(ResetKey(e))
                /\ Get(ResetKey(e)) # SubmittedCode(rc, c)
                /\ ResetPassword(e, rc, c, p))
               => /\ resp'.status = 400 /\ resp'.cookies = "none"
                  /\ UNCHANGED <<db, redis, next_tok, access>>
      ]_vars

\* a verify-device with a wrong code has been refused and the challenge is
\* still stored
C7_Witness ==
    /\ resp.op = "verify_device" /\ resp.status = 400
    /\ resp.detail = "Invalid verification code"
    /\ Exists(DeviceVerifyKey(resp.email))
    /\ \E i \in UsersByEmail(users, resp.email) : Cardinality(UserDevices(devices, i)) = 1

\* C8 (as claimed): register(e) while a pending registration for e is live
\* fails with VerificationPending (400), leaves the pending registration as
\* it was and mails no code.
C8_PendingAlwaysVerificationPending ==
    [][Handled("register") =>
         \A e \in {resp'.email}, p \in Passwords, n \in Names, r \in Roles \cup {None} :
            (Register(e, p, n, r) /\ Exists(RegistrationKey(e)))
            => /\ resp'.status = 400
               /\ resp'.detail = "Verification code already sent. Please check your email."
               /\ redis' = redis
               /\ resp'.mail = None
      ]_vars

\* C8 (amended): register(e) while a pending registration for e is live
\* fails with 400 - VerificationPending when no account holds e, 'Email
\* already registered' when one does - and in both cases leaves the pending
\* registration (code, payload, remaining TTL) as it was and mails no code.
C8_PendingRegistrationUntouched ==
    [][Handled("register") =>
         \A e \in {resp'.email}, p \in Passwords, n \in Names, r \in Roles \cup {None} :
            (Register(e, p, n, r) /\ Exists(RegistrationKey(e)))
            => /\ resp'.status = 400
               /\ resp'.detail =
                    (IF UsersByEmail(users, e) = {}
                     THEN "Verification code already sent. Please check your email."
                     ELSE "Email already registered")
               /\ redis' = redis
               /\ users' = users
               /\ resp'.mail = None
      ]_vars

\* a second register for a pending email has been refused
C8_Witness ==
    /\ resp.op = "register" /\ resp.status = 400
    /\ resp.detail = "Verification code already sent. Please check your email."
    /\ Exists(RegistrationKey(resp.email))
    /\ UsersByEmail(users, resp.email) = {}

\* C9 (as claimed): a login whose password does not match gets the same
\* 'Invalid credentials' answer whether or not an account holds the email and
\* whatever that account's active/verified flags are.
C9_WrongPasswordIndistinguishable ==
    [][Handled("login") =>
         \A e \in {resp'.email}, p \in Passwords, fp \in RequestFingerprints,
            ua \in UserAgents, ip \in ClientIps :
            (/\ Login(e, p, fp, ua, ip)
             /\ \A i \in UsersByEmail(users, e) :
                  ~VerifyPassword(p, users[i].hashed_password, users[i].salt))
            => resp' = Response("login", e, 401, "Invalid credentials")
      ]_vars

\* the token part of a refresh_token:{user_id}:{token} key
RefreshKeyToken(k) == SubSeq(k, 5, Len(k))

\* C10 (as claimed): refresh succeeds exactly when the presented token is a
\* live refresh entry whose account exists and is active, and it never adds,
\* removes or changes a refresh entry.
C10_RefreshIffLiveToken ==
    [][Handled("refresh") =>
         \A t \in RefreshCookies :
            RefreshToken(t) =>
              /\ (resp'.status = 200 /\ resp'.cookies = "access")
                   <=> \E k \in RefreshKeys(redis) :
                         /\ RefreshKeyToken(k) = t
                         /\ Get(k).user_id \in DOMAIN users
                         /\ users[Get(k).user_id].is_active
              /\ redis' = redis
      ]_vars

\* C11 (as claimed): a logout presenting refresh token t answers success and
\* leaves no live entry for t, while every other refresh entry, of any
\* account, is kept as it was; a logout with no token or with a token that
\* is no live entry answers success and changes no store entry.
C11_LogoutRevokesOnlyPresented ==
    [][Handled("logout") =>
         \A t \in RefreshCookies :
            Logout(t) =>
              /\ resp'.status = 200
              /\ \A k \in RefreshKeys(redis') : RefreshKeyToken(k) # t
              /\ \A k \in RefreshKeys(redis) :
                   RefreshKeyToken(k) # t => (k \in DOMAIN redis' /\ redis'[k] = redis[k])
              /\ (\A k \in RefreshKeys(redis) : RefreshKeyToken(k) # t)
                   => (redis' = redis /\ UNCHANGED db)
      ]_vars

\* C12 (as claimed): while a subject holds an unexpired access token,
\* get_current_user authenticates it, whatever has happened to the account
\* in the store since the token was issued.
C12_TokenValidUntilExpiry ==
    \A sub \in DOMAIN access : access[sub] > 0 => GetCurrentUser(sub) = 200

\* the five most recent history rows of an account
FiveMostRecent(h, user_id) ==
    LET idx == {i \in 1..Len(h) : h[i].user_id = user_id}
    IN  {h[i] : i \in {j \in idx : Cardinality({k \in idx : k > j}) < 5}}

\* C13: an authenticated change-password whose current password verifies
\* and whose new password has at least 8 characters is rejected with
\* 'Cannot reuse recent passwords', changing nothing, when the new password
\* verifies against one of the account's five most recent history rows, and
\* is accepted otherwise; on acceptance the old hash and salt are appended to
\* the history and the account's hash and salt become those of the new
\* password under a newly drawn salt.
C13_HistoryOfFive ==
    [][Handled("change_password") =>
         \A sub \in 1..MaxUsers, cur \in Passwords \cup NewPasswords, new \in NewPasswords :
            (/\ GetCurrentUser(sub) = 200
             /\ VerifyPassword(cur, users[sub].hashed_password, users[sub].salt)
             /\ Len(new) >= 8
             /\ ChangePassword(sub, cur, new))
            => IF \E row \in FiveMostRecent(password_history, sub) :
                    VerifyPassword(new, row.hashed_password, row.salt)
               THEN /\ resp'.status = 400
                    /\ resp'.detail = "Cannot reuse recent passwords"
                    /\ users' = users /\ password_history' = password_history
               ELSE /\ resp'.status = 200
                    /\ password_history' =
                         Append(password_history,
                                [user_id |-> sub,
                                 hashed_password |-> users[sub].hashed_password,
                                 salt |-> users[sub].salt])
                    /\ \E s \in Salts :
                         users' = [users EXCEPT
                                     ![sub].hashed_password = GetPasswordHash(new, s),
                                     ![sub].salt = s]
      ]_vars

\* a change to the password of the sixth most recent history row has been
\* accepted
C13_Witness ==
    /\ resp.op = "change_password" /\ resp.status = 200
    /\ Len(password_history) = 7
    /\ password_history[1].hashed_password = users[1].hashed_password
    /\ \A i \in 2..6 : password_history[i].hashed_password # users[1].hashed_password

\* C14 (as claimed): once three logins with a wrong password have been
\* refused for a verified account, every further login for it, the correct
\* password included, is refused with 403 'Account locked'.
C14_LockedAfterThreeFailures ==
    [][(/\ nreq' = nreq + 1 /\ resp'.op = "login"
        /\ failed_logins[resp'.email] >= 3
        /\ \E i \in UsersByEmail(users, resp'.email) : users[i].is_verified)
       => (resp'.status = 403 /\ resp'.detail = "Account locked")
      ]_vars

\* C15 (as claimed): on the /auth router a login for a verified account
\* succeeds with an access token exactly when the presented password is the
\* account's current password.
C15_LegacyLoginIffCurrentPassword ==
    [][Handled("legacy_login") =>
         \A e \in {resp'.email}, p \in Passwords :
            LegacyLogin(e, p) =>
              \A i \in UsersByEmail(users, e) :
                 users[i].is_verified =>
                   ((resp'.status = 200 /\ resp'.token # <<>>)
                      <=> VerifyPassword(p, users[i].hashed_password, users[i].salt))
      ]_vars

\* what a matching reset-password does for account i
PasswordReset(e, i, p) ==
    /\ resp'.status = 200
    /\ \E s \in Salts :
         users' = [users EXCEPT ![i].hashed_password = GetPasswordHash(p, s),
                                ![i].salt = s]
    /\ ResetKey(e) \notin DOMAIN redis'
    /\ VerifyPassword(p, users'[i].hashed_password, users'[i].salt)
    /\ \A old \in Passwords \ {p} :
         ~VerifyPassword(old, users'[i].hashed_password, users'[i].salt)

\* a reset-password without a live challenge
NoResetChallenge(e) ==
    ~Exists(ResetKey(e))
      => /\ resp'.status = 400
         /\ resp'.detail = "Invalid or expired reset code"
         /\ users' = users /\ redis' = redis

\* C16 (as claimed): every reset-password whose code matches the live
\* challenge of the email stores the hash of the new password under a newly
\* drawn salt and deletes the challenge, so that the new password verifies,
\* any other password does not, and a second reset with the same code finds
\* no challenge and fails.
C16_MatchingCodeAlwaysResets ==
    [][Handled("reset_password") =>
         \A e \in {resp'.email}, rc \in RequestCodes, c \in RequestCodes, p \in Passwords :
            /\ (/\ Exists(ResetKey(e))
                /\ Get(ResetKey(e)) = SubmittedCode(rc, c)
                /\ ResetPassword(e, rc, c, p))
                 => \E i \in DOMAIN users : PasswordReset(e, i, p)
            /\ NoResetChallenge(e)
      ]_vars

\* C16 (amended): a reset-password whose code matches the live challenge of
\* the email, while an account still holds that email, stores the hash of the
\* new password under a newly drawn salt and deletes the challenge, so that
\* the new password verifies, any other password does not, and a second
\* reset with the same code finds no challenge and fails; when no account
\* holds the email the request fails 404 and changes nothing, the challenge
\* included.
C16_MatchingCodeResetsExistingAccount ==
    [][Handled("reset_password") =>
         \A e \in {resp'.email}, rc \in RequestCodes, c \in RequestCodes, p \in Passwords :
            /\ (/\ Exists(ResetKey(e))
                /\ Get(ResetKey(e)) = SubmittedCode(rc, c)
                /\ ResetPassword(e, rc, c, p))
                 => IF UsersByEmail(users, e) # {}
                    THEN \A i \in UsersByEmail(users, e) : PasswordReset(e, i, p)
                    ELSE /\ resp'.status = 404 /\ resp'.detail = "User not found"
                         /\ UNCHANGED <<db, redis, next_tok, access>>
            /\ NoResetChallenge(e)
      ]_vars

\* the password of an account was reset to q and the repeat of the request
\* has failed
C16_Witness ==
    /\ resp.op = "reset_password" /\ resp.status = 400
    /\ ~Exists(ResetKey(resp.email))
    /\ \E i \in UsersByEmail(users, resp.email) :
         /\ VerifyPassword(<<"q">>, users[i].hashed_password, users[i].salt)
         /\ ~VerifyPassword(SeedPassword, users[i].hashed_password, users[i].salt)

\* C17: forgot-password answers with the same status, message and cookies
\* whether or not an account holds the email; the request stores a reset
\* code under the email (with the full code lifetime, the code that is
\* mailed) exactly when an account holds it, and otherwise leaves the
\* ephemeral store as it was.
C17_ForgotPasswordIndistinguishable ==
    [][Handled("forgot_password") =>
         \A e \in {resp'.email} :
            ForgotPassword(e) =>
              /\ [resp' EXCEPT !.mail = None]
                   = Response("forgot_password", e, 200, "If the email exists, a reset code has been sent.")
              /\ UNCHANGED db
              /\ IF UsersByEmail(users, e) # {}
                 THEN /\ redis' = SetEx(redis, ResetKey(e), CodeTTL, resp'.mail)
                      /\ resp'.mail \in Codes
                 ELSE /\ redis' = redis
                      /\ resp'.mail = None
      ]_vars

\* forgot-password has answered for an email without account, storing
\* nothing, after it stored a code for the email of an account
C17_Witness ==
    /\ resp.op = "forgot_password" /\ resp.status = 200
    /\ UsersByEmail(users, resp.email) = {}
    /\ ~Exists(ResetKey(resp.email))
    /\ \E e \in Emails : UsersByEmail(users, e) # {} /\ Exists(ResetKey(e))

\* the comparison of verify_email: code c matches the pending registration
\* that store r holds for the email
CodeAccepted(r, e, c) ==
    /\ RegistrationKey(e) \in DOMAIN r
    /\ r[RegistrationKey(e)].val.code = c

\* what resend-verification does to a live pending registration, and what it
\* answers without one
Resent(e) ==
    IF Exists(RegistrationKey(e))
    THEN /\ resp'.status = 200
         /\ resp'.mail \in Codes
         /\ redis' = SetEx(redis, RegistrationKey(e), CodeTTL,
                           [Get(RegistrationKey(e)) EXCEPT !.code = resp'.mail])
         /\ CodeAccepted(redis', e, resp'.mail)
    ELSE /\ resp'.status = 400
         /\ resp'.detail = "No pending verification found. Please register again."
         /\ redis' = redis

\* C18 (as claimed): resend-verification for an email with a live pending
\* registration replaces only the code, keeps email, name, hash, salt and
\* role, restarts the full lifetime of the record, and afterwards the mailed
\* code is accepted and the previous code is rejected; without a pending
\* registration it fails and creates no record.
C18_ResendAlwaysInvalidatesPrevious ==
    [][Handled("resend_verification") =>
         \A e \in {resp'.email} :
            ResendVerification(e) =>
              /\ Resent(e)
              /\ UNCHANGED db
              /\ Exists(RegistrationKey(e))
                   => ~CodeAccepted(redis', e, Get(RegistrationKey(e)).code)
      ]_vars

\* C18 (amended): resend-verification for an email with a live pending
\* registration replaces only the code, keeps email, name, hash, salt and
\* role, restarts the full lifetime of the record, and afterwards the mailed
\* code is accepted and every other code is rejected: the previous code is
\* rejected exactly when the newly drawn code differs from it. Without a
\* pending registration it fails and creates no record.
C18_ResendReplacesCode ==
    [][Handled("resend_verification") =>
         \A e \in {resp'.email} :
            ResendVerification(e) =>
              /\ Resent(e)
              /\ UNCHANGED db
              /\ Exists(RegistrationKey(e))
                   => /\ \A c \in Codes \ {resp'.mail} : ~CodeAccepted(redis', e, c)
                      /\ CodeAccepted(redis', e, Get(RegistrationKey(e)).code)
                           <=> Get(RegistrationKey(e)).code = resp'.mail
      ]_vars

\* a code was resent for a pending registration, whose record holds the
\* mailed code and a restarted timer
C18_Witness ==
    /\ resp.op = "resend_verification" /\ resp.status = 200
    /\ Exists(RegistrationKey(resp.email))
    /\ Get(RegistrationKey(resp.email)).code = resp.mail
    /\ redis[RegistrationKey(resp.email)].ttl = CodeTTL
    /\ Get(RegistrationKey(resp.email)).email = resp.email

\* C19: when verify-email carries the stored code but an account already
\* holds the email of the pending registration, so that the insert is refused,
\* the request fails with 500 "Database error during user creation", the
\* users table and the rest of the database are as before, and the pending
\* registration stays in the ephemeral store with the same payload and
\* remaining lifetime.
C19_FailedInsertKeepsPending ==
    [][Handled("verify_email") =>
         \A e \in {resp'.email}, vc \in RequestCodes, c \in RequestCodes :
            (/\ Exists(RegistrationKey(e))
             /\ Get(RegistrationKey(e)).code = SubmittedCode(vc, c)
             /\ UsersByEmail(users, Get(RegistrationKey(e)).email) # {}
             /\ VerifyEmail(e, vc, c))
              => /\ resp'.status = 500
                 /\ resp'.detail = "Database error during user creation"
                 /\ UNCHANGED db
                 /\ redis' = redis
                 /\ UNCHANGED <<next_tok, access>>
      ]_vars

\* a verify-email with the stored code was refused by the unique index: the
\* email belongs to an account and the pending registration is still there
C19_Witness ==
    /\ resp.op = "verify_email" /\ resp.status = 500
    /\ UsersByEmail(users, resp.email) # {}
    /\ Exists(RegistrationKey(resp.email))
    /\ Get(RegistrationKey(resp.email)).email = resp.email

\* this step is a create_or_update_profile that saved the profile
ProfileWritten ==
    /\ nreq' = nreq + 1
    /\ profile_resp'.op = "create_or_update_profile"
    /\ profile_resp'.status = 200

\* the value of field f that get_user_profile returns from row under the key
ReadBack(key, row, f) == DecryptDict(key, row, SensitiveFields)[f]

\* C20: decrypt(encrypt(x)) = x for every non-empty string x, encrypt of the
\* empty string is the empty string, and every sensitive field of a profile
\* body that create_or_update_profile has accepted is returned by
\* get_user_profile with the value the client sent.
C20_ProfileFieldRoundTrip ==
    /\ \A key \in Keys, iv \in IVs, x \in FieldValues :
         /\ Encrypt(key, iv, << >>) = << >>
         /\ x # << >> => /\ ~DecryptFails(key, Encrypt(key, iv, x))
                         /\ Decrypt(key, Encrypt(key, iv, x)) = x
    /\ [][ProfileWritten =>
            \A sub \in {profile_resp'.sub}, body \in {profile_resp'.body} :
               CreateOrUpdateProfile(sub, body) =>
                 \A f \in DOMAIN body :
                    ReadBack(encryption_manager'.cipher, user_profiles'[sub], f) = body[f]
        ]_vars

\* what the code does guarantee: the field is read back as sanitized
ProfileFieldReadBackSanitized ==
    [][ProfileWritten =>
         \A sub \in {profile_resp'.sub}, body \in {profile_resp'.body} :
            CreateOrUpdateProfile(sub, body) =>
              \A f \in DOMAIN body :
                 ReadBack(encryption_manager'.cipher, user_profiles'[sub], f) = StripHtml(body[f])
     ]_vars

\* the presented cookie value is the token of no live refresh entry
NotALiveToken(t) == \A k \in RefreshKeys(redis) : RefreshKeyToken(k) # t

\* C23 (as claimed): a refresh or logout that presents a value which is the
\* token of no live refresh entry (a value of glob metacharacters included)
\* yields no access token for any account and deletes no refresh entry.
C23_OnlyExactTokenActs ==
    [][/\ Handled("refresh") =>
            \A t \in RefreshCookies :
               (NotALiveToken(t) /\ RefreshToken(t))
                 => /\ resp'.status # 200
                    /\ resp'.cookies # "access"
                    /\ access' = access
                    /\ redis' = redis
       /\ Handled("logout") =>
            \A t \in RefreshCookies :
               (NotALiveToken(t) /\ Logout(t))
                 => /\ RefreshKeys(redis') = RefreshKeys(redis)
                    /\ redis' = redis
      ]_vars

\* account i holds a live session, so a login of it has succeeded before
HasLiveSession(i) ==
    \/ access[i] > 0
    \/ \E k \in RefreshKeys(redis) : Get(k).user_id = i

\* C24 (as claimed): once an account has had a successful login, a login
\* from a fingerprint that is not among its trusted devices receives no
\* session (no cookies, no refresh token, no access token) and trusts no
\* device, also after devices were removed with remove_user_device.
C24_OnlyFirstLoginAutoTrusted ==
    [][Handled("login") =>
         \A e \in {resp'.email}, p \in Passwords, fp \in RequestFingerprints,
            ua \in UserAgents, ip \in ClientIps :
            \A i \in UsersByEmail(users, e) :
               (/\ HasLiveSession(i)
                /\ \A d \in UserDevices(devices, i) :
                     devices[d].fingerprint_hash # UsedFingerprint(fp, ua, ip)
                /\ Login(e, p, fp, ua, ip))
                 => /\ resp'.cookies = "none"
                    /\ resp'.token = <<>>
                    /\ RefreshKeys(redis') = RefreshKeys(redis)
                    /\ access' = access
                    /\ devices' = devices
      ]_vars

\* C26 (as claimed): whenever login or verify-device stores a refresh token
\* or sets the auth cookies, the account the session is for is active and
\* verified at that moment.
C26_NoSessionForInactiveOrUnverified ==
    [][(/\ nreq' = nreq + 1
        /\ resp'.op \in {"login", "verify_device"})
         => /\ \A k \in RefreshKeys(redis') \ RefreshKeys(redis) :
                 /\ redis'[k].val.user_id \in DOMAIN users'
                 /\ users'[redis'[k].val.user_id].is_active
                 /\ users'[redis'[k].val.user_id].is_verified
            /\ resp'.cookies = "auth"
                 => \A i \in UsersByEmail(users', resp'.email) :
                       users'[i].is_active /\ users'[i].is_verified
      ]_vars

\* C27 (as claimed): no self-service request gives an account a privileged
\* role: the account that a successful verify-email materializes has role
\* patient, whatever role the registration carried, and no request of the
\* public routers changes the role of an account.
C27_SelfServiceAccountsArePatients ==
    [][/\ Handled("verify_email") =>
            \A i \in DOMAIN users' \ DOMAIN users : users'[i].role = "patient"
       /\ \A i \in DOMAIN users \cap DOMAIN users' : users'[i].role = users[i].role
      ]_vars

\* C28 (as claimed): when a client that has just logged in, and that sends
\* each cookie only to requests under the cookie's path, logs out, the
\* refresh token issued at that login is no longer in the store (and the
\* same client does present it to the refresh endpoint).
C28_LogoutRevokesLoginToken ==
    [][(/\ Handled("logout")
        /\ resp.op = "login" /\ resp.cookies = "auth"
        /\ Logout(CookieSent(LogoutEndpoint, resp.token)))
         => /\ CookieSent(RefreshEndpoint, resp.token) = resp.token
            /\ \A k \in RefreshKeys(redis') : RefreshKeyToken(k) # resp.token
      ]_vars

\* C21 (as claimed): under every interleaving of register,
\* resend-verification and verify-email, no state that a request can observe
\* has an account with email e together with a live pending registration for
\* e, and once an account holds e and the pending registration is gone, no
\* request stores a pending registration for e again.
C21_MaterializationAtomic ==
    [][\A e \in Emails :
          /\ UsersByEmail(users', e) # {} => RegistrationKey(e) \notin DOMAIN redis'
          /\ (UsersByEmail(users, e) # {} /\ ~Exists(RegistrationKey(e)))
               => RegistrationKey(e) \notin DOMAIN redis'
      ]_vars

\* the second half of C21 alone: no pending registration reappears
C21_NoPendingAfterVerification ==
    [][\A e \in Emails :
          (UsersByEmail(users, e) # {} /\ ~Exists(RegistrationKey(e)))
            => RegistrationKey(e) \notin DOMAIN redis'
      ]_vars

\* C25 (as claimed): under every interleaving of register requests for one
\* email, a register is accepted only while no pending registration for the
\* email is live, so at most one of them is accepted and the stored code of
\* the accepted one is not overwritten.
C25_OneRegisterAccepted ==
    [][\A w \in Workers :
          RegisterStore(w) => ~Exists(RegistrationKey(inflight[w].email))
      ]_vars

\* another in-flight request that matched the same code for the same email
\* has already committed its effect
AlreadyUsedBy(w, op) ==
    \E v \in Workers \ {w} :
       /\ inflight[v].op = op
       /\ inflight[v].email = inflight[w].email
       /\ inflight[v].pc \in {"delete", "session"}
       /\ inflight[v].data.code = inflight[w].data.code

\* C22 (as claimed): under every interleaving, of two concurrent verify-device
\* requests, or two concurrent reset-password requests, that carry the same
\* correct code, at most one succeeds: a request never adds a trusted device,
\* or replaces the password, for a code on which a concurrent request has
\* already done so.
C22_CodeAcceptedOnce ==
    [][\A w \in Workers :
          /\ (VerifyDeviceCommit(w) /\ inflight'[w].pc = "delete")
               => ~AlreadyUsedBy(w, "verify_device")
          /\ (ResetCommit(w) /\ inflight'[w].pc = "delete")
               => ~AlreadyUsedBy(w, "reset_password")
      ]_vars

\* the verify-device half of C22 alone
C22_DeviceCodeAcceptedOnce ==
    [][\A w \in Workers :
          (VerifyDeviceCommit(w) /\ inflight'[w].pc = "delete")
            => ~AlreadyUsedBy(w, "verify_device")
      ]_vars

\* the reset-password half of C22 alone
C22_ResetCodeAcceptedOnce ==
    [][\A w \in Workers :
          (ResetCommit(w) /\ inflight'[w].pc = "delete")
            => ~AlreadyUsedBy(w, "reset_password")
      ]_vars

\* C29 (as claimed): under every interleaving of logins with the correct
\* password, a login auto-trusts its fingerprint only while the account has
\* no trusted device, so the account never gets a second auto-trusted device.
C29_OneAutoTrustedDevice ==
    [][\A w \in Workers :
          LoginFirstCommit(w) =>
             \A d \in UserDevices(devices, inflight[w].sub) :
                devices[d].fingerprint_hash = inflight[w].data.fingerprint
      ]_vars

\* account i exists and its verified flag is off
Unverified(i) == i \in DOMAIN users /\ ~users[i].is_verified

\* C30 (as claimed): once update_current_user_profile has changed the email of
\* the seeded account and switched its verified flag off, the account's owner
\* can get it verified again: in a system that keeps serving requests the
\* account does not stay unverified for ever.
C30_OwnerCanReverify ==
    [](Unverified(1) => <>(1 \in DOMAIN users /\ users[1].is_verified))

\* what the code does instead: no request turns the verified flag of an
\* existing account on, and no request removes the account
C30_UnverifiedIsPermanent ==
    [][\A i \in DOMAIN users : Unverified(i) => Unverified(i)']_vars

====
